---- MODULE Spec2Model ----
(***************************************************************************)
(* Model of the workflows client of gcp-hcp-cli (package workflows):       *)
(* Execute, Run, GetExecution, WaitForCompletion and ListExecutions on     *)
(* top of the remote execution service, the error classifier              *)
(* wrapAuthError, and the record building shared by the readers.          *)
(*                                                                         *)
(* Time stamps are integers counted in ticks of half a millisecond, so    *)
(* that rounding a duration to a millisecond is observable.  Poll         *)
(* intervals are integers counted in milliseconds.  A JSON text is the    *)
(* sequence of its lexical tokens; an error message is the sequence of    *)
(* the phrases it is made of.                                              *)
(***************************************************************************)
EXTENDS Integers, Sequences, FiniteSets, TLC

(***************************************************************************)
(* Bounds of the model.                                                    *)
(***************************************************************************)
\* polls one WaitForCompletion call may issue before the model stops it
MaxPolls == 5
\* core operations one process invocation may run in sequence
MaxCalls == 2
\* longest running time of an execution, in ticks
MaxDur == 3
\* latest start tick of an execution
MaxStart == 2
\* longest run of arbitrary tokens tried as a result text
MaxTextLen == 2
\* most executions the service holds for one workflow
MaxExecs == 2
\* largest --limit tried
MaxLimit == 2

(***************************************************************************)
(* Program constants.                                                      *)
(***************************************************************************)
\* pollInterval := 500 * time.Millisecond
InitialPollInterval == 500
\* maxPoll := 2 * time.Second
maxPoll == 2000
\* time.Millisecond, in ticks
TicksPerMs == 2
\* the zero time.Time (field left unassigned)
ZeroTime == 0
\* the zero time.Duration (field left unassigned)
ZeroDuration == 0

(***************************************************************************)
(* The execution states of the remote service (executionspb.Execution_    *)
(* State) under the names State.String() gives them.                       *)
(***************************************************************************)
RemoteStates ==
    {"STATE_UNSPECIFIED", "ACTIVE", "SUCCEEDED", "FAILED", "CANCELLED",
     "UNAVAILABLE", "QUEUED"}

\* the terminal states of the specification's glossary
TerminalStates == {"SUCCEEDED", "FAILED", "CANCELLED"}

(***************************************************************************)
(* JSON texts, as token sequences, and encoding/json's Unmarshal into a   *)
(* map[string]interface{}.                                                 *)
(***************************************************************************)
StrToks == {"\"items\"", "\"a\""}
\* the strings of a callbacks listing
CallbackToks ==
    {"\"callbacks\"", "\"name\"", "\"method\"", "\"cb1\"", "\"cb2\"", "\"cb3\"",
     "\"POST\"", "\"GET\""}
\* the strings of the result of the logs workflow
LogsToks == {"\"status\"", "\"container_required\"", "\"logs\""}
NumToks == {"1"}
JsonToks == {"{", "}", "[", "]", ":", ",", "null", "oops"} \cup StrToks \cup NumToks

JNull == [t |-> "null"]
JNum(n) == [t |-> "num", n |-> n]
JStr(s) == [t |-> "str", s |-> s]
JArr(e) == [t |-> "arr", e |-> e]
JObj(m) == [t |-> "obj", m |-> m]
EmptyMembers == [k \in {} |-> JNull]
\* a nil map[string]interface{}
NilMap == [t |-> "nil"]

ParseFail == [ok |-> FALSE, v |-> JNull, next |-> 0]
ParseOk(v, next) == [ok |-> TRUE, v |-> v, next |-> next]

RECURSIVE ParseValue(_, _)
RECURSIVE ParseElems(_, _, _)
RECURSIVE ParseMembers(_, _, _)

\* one JSON value starting at token i
ParseValue(ts, i) ==
    IF i > Len(ts) THEN ParseFail
    ELSE IF ts[i] = "null" THEN ParseOk(JNull, i + 1)
    ELSE IF ts[i] \in NumToks THEN ParseOk(JNum(ts[i]), i + 1)
    ELSE IF ts[i] \in StrToks \cup CallbackToks \cup LogsToks THEN ParseOk(JStr(ts[i]), i + 1)
    ELSE IF ts[i] = "["
      THEN IF i + 1 <= Len(ts) /\ ts[i + 1] = "]"
             THEN ParseOk(JArr(<<>>), i + 2)
             ELSE ParseElems(ts, i + 1, <<>>)
    ELSE IF ts[i] = "{"
      THEN IF i + 1 <= Len(ts) /\ ts[i + 1] = "}"
             THEN ParseOk(JObj(EmptyMembers), i + 2)
             ELSE ParseMembers(ts, i + 1, EmptyMembers)
    ELSE ParseFail

\* the elements of an array, after "[" or ","
ParseElems(ts, i, acc) ==
    LET r == ParseValue(ts, i) IN
    IF ~r.ok \/ r.next > Len(ts) THEN ParseFail
    ELSE IF ts[r.next] = "," THEN ParseElems(ts, r.next + 1, Append(acc, r.v))
    ELSE IF ts[r.next] = "]" THEN ParseOk(JArr(Append(acc, r.v)), r.next + 1)
    ELSE ParseFail

\* the members of an object, after "{" or ","; a repeated key keeps the last value
ParseMembers(ts, i, acc) ==
    IF i + 1 > Len(ts) \/ ts[i] \notin StrToks \cup CallbackToks \cup LogsToks
       \/ ts[i + 1] /= ":"
      THEN ParseFail
    ELSE LET r == ParseValue(ts, i + 2)
             m == [k \in DOMAIN acc \cup {ts[i]} |-> IF k = ts[i] THEN r.v ELSE acc[k]]
         IN IF ~r.ok \/ r.next > Len(ts) THEN ParseFail
            ELSE IF ts[r.next] = "," THEN ParseMembers(ts, r.next + 1, m)
            ELSE IF ts[r.next] = "}" THEN ParseOk(JObj(m), r.next + 1)
            ELSE ParseFail

\* json.Unmarshal([]byte(text), &parsed) with parsed a nil map[string]interface{}
jsonUnmarshal(text) ==
    LET r == ParseValue(text, 1) IN
    IF ~r.ok \/ r.next /= Len(text) + 1 THEN [err |-> TRUE, m |-> NilMap]
    ELSE IF r.v.t = "null" THEN [err |-> FALSE, m |-> NilMap]
    ELSE IF r.v.t = "obj" THEN [err |-> FALSE, m |-> r.v]
    ELSE [err |-> TRUE, m |-> NilMap]

\* map[string]interface{}{"raw": exec.Result}
RawResult(text) == JObj([k \in {"\"raw\""} |-> [t |-> "text", s |-> text]])

(***************************************************************************)
(* Error values.  An error message is a sequence of phrases; Contains is  *)
(* strings.Contains on it.  An error value carries the kind of its text,  *)
(* the action label, the remediation hint and the error it wraps with %w  *)
(* (a sequence of at most one message).                                    *)
(***************************************************************************)
PhraseHas(p, sub) ==
    \/ p = sub
    \/ p = "oauth2: token expired" /\ sub = "token expired"

Contains(msg, sub) == \E i \in DOMAIN msg : PhraseHas(msg[i], sub)

NoErr == [kind |-> "nil", action |-> "", hint |-> "", cause |-> <<>>]
MkErr(kind, action, hint, cause) ==
    [kind |-> kind, action |-> action, hint |-> hint, cause |-> cause]

\* context.DeadlineExceeded and context.Canceled, the values ctx.Err() returns
CtxErr(c) ==
    IF c = "deadline" THEN MkErr("DeadlineExceeded", "", "", <<>>)
    ELSE MkErr("Canceled", "", "", <<>>)

\* the message of the error an RPC returns when its context is done
CtxRpcMsg(c) ==
    IF c = "deadline"
      THEN <<"rpc error: code = DeadlineExceeded desc = context deadline exceeded">>
      ELSE <<"rpc error: code = Canceled desc = context canceled">>

\* variant: the not-found case is tested before the permission case
wrapAuthErrorNotFoundFirst(action, msg) ==
    IF Contains(msg, "could not find default credentials")
      THEN MkErr("MissingCredentials", action,
                 "Run: gcloud auth application-default login", <<>>)
    ELSE IF Contains(msg, "token expired") \/ Contains(msg, "oauth2: token expired")
      THEN MkErr("ExpiredCredentials", action,
                 "Run: gcloud auth application-default login", <<>>)
    ELSE IF Contains(msg, "NotFound") \/ Contains(msg, "not found")
      THEN MkErr("ResourceNotFound", action,
                 "Verify the workflow exists", <<>>)
    ELSE IF \/ Contains(msg, "PermissionDenied")
            \/ Contains(msg, "permission denied")
            \/ Contains(msg, "403")
      THEN MkErr("PermissionDenied", action,
                 "Ensure your account has the required roles", <<>>)
    ELSE IF Contains(msg, "Unauthenticated") \/ Contains(msg, "401")
      THEN MkErr("Unauthenticated", action,
                 "Run: gcloud auth application-default login", <<>>)
    ELSE MkErr("Unclassified", action, "", <<msg>>)

\* variant: without the case of the missing credentials
wrapAuthErrorNoMissingCase(action, msg) ==
    IF Contains(msg, "token expired") \/ Contains(msg, "oauth2: token expired")
      THEN MkErr("ExpiredCredentials", action,
                 "Run: gcloud auth application-default login", <<>>)
    ELSE IF \/ Contains(msg, "PermissionDenied")
            \/ Contains(msg, "permission denied")
            \/ Contains(msg, "403")
      THEN MkErr("PermissionDenied", action,
                 "Ensure your account has the required roles", <<>>)
    ELSE IF Contains(msg, "NotFound") \/ Contains(msg, "not found")
      THEN MkErr("ResourceNotFound", action,
                 "Verify the workflow exists", <<>>)
    ELSE IF Contains(msg, "Unauthenticated") \/ Contains(msg, "401")
      THEN MkErr("Unauthenticated", action,
                 "Run: gcloud auth application-default login", <<>>)
    ELSE MkErr("Unclassified", action, "", <<msg>>)

wrapAuthError(action, msg) ==
    IF Contains(msg, "could not find default credentials")
      THEN MkErr("MissingCredentials", action,
                 "Run: gcloud auth application-default login", <<>>)
    ELSE IF Contains(msg, "token expired") \/ Contains(msg, "oauth2: token expired")
      THEN MkErr("ExpiredCredentials", action,
                 "Run: gcloud auth application-default login", <<>>)
    ELSE IF \/ Contains(msg, "PermissionDenied")
            \/ Contains(msg, "permission denied")
            \/ Contains(msg, "403")
      THEN MkErr("PermissionDenied", action,
                 "Ensure your account has the required roles", <<>>)
    ELSE IF Contains(msg, "NotFound") \/ Contains(msg, "not found")
      THEN MkErr("ResourceNotFound", action,
                 "Verify the workflow exists", <<>>)
    ELSE IF Contains(msg, "Unauthenticated") \/ Contains(msg, "401")
      THEN MkErr("Unauthenticated", action,
                 "Run: gcloud auth application-default login", <<>>)
    ELSE MkErr("Unclassified", action, "", <<msg>>)

\* the kinds wrapAuthError gives to a credential or permission failure
AuthKinds ==
    {"MissingCredentials", "ExpiredCredentials", "PermissionDenied",
     "ResourceNotFound", "Unauthenticated"}

\* the first line of the message wrapAuthError formats for a recognized case
Headline(kind) ==
    CASE kind = "MissingCredentials" -> "no GCP credentials found"
      [] kind = "ExpiredCredentials" -> "GCP credentials have expired"
      [] kind = "PermissionDenied" -> "permission denied"
      [] kind = "ResourceNotFound" -> "resource not found"
      [] kind = "Unauthenticated" -> "authentication failed"

\* an error built by fmt.Errorf in place: the label, the formatted operands
\* (%d, %s), and the error wrapped with %w, if any
Errorf(action, detail, cause) ==
    [kind |-> "Errorf", action |-> action, hint |-> "", cause |-> cause,
     detail |-> detail]

\* err.Error(), as phrases
ErrorText(e) ==
    IF e.kind = "nil" THEN <<>>
    ELSE IF e.kind \in AuthKinds THEN <<e.action, ": ", Headline(e.kind), e.hint>>
    ELSE IF e.kind = "Unclassified" THEN <<e.action, ": ">> \o e.cause[1]
    ELSE IF e.kind = "DeadlineExceeded" THEN <<"context deadline exceeded">>
    ELSE IF e.kind = "Canceled" THEN <<"context canceled">>
    ELSE IF e.cause = <<>> THEN <<e.action, ": ">> \o e.detail
    ELSE <<e.action, ": ">> \o e.detail \o e.cause[1]

\* errors.Unwrap: the message of the wrapped error, if there is one
Unwrap(e) == e.cause

(***************************************************************************)
(* Records.  A remote execution (executionspb.Execution) has a name, a    *)
(* state, a start time, an end time (ZeroTime: nil), a result text and an *)
(* error (a sequence of at most one context string; empty: nil).          *)
(***************************************************************************)
ExecName == <<"workflows", "get", "executions", "e1">>

Execution(name, state, start, end, result, error) ==
    [Name |-> name, State |-> state, StartTime |-> start, EndTime |-> end,
     Result |-> result, Error |-> error]

\* the zero ExecutionResult with the three fields every reader sets
NewExecutionResult(name, state, start) ==
    [Name |-> name, State |-> state, StartTime |-> start, EndTime |-> ZeroTime,
     Duration |-> ZeroDuration, Result |-> NilMap, Error |-> ""]

\* time.Time.Sub
Sub(end, start) == end - start

\* variant: the error context is copied whenever the execution carries one
GetExecutionResultAnyError(exec) ==
    LET r0 == NewExecutionResult(exec.Name, exec.State, exec.StartTime)
        r1 == IF exec.EndTime /= ZeroTime
                THEN [r0 EXCEPT !.EndTime = exec.EndTime,
                                !.Duration = Sub(exec.EndTime, r0.StartTime)]
                ELSE r0
        p  == jsonUnmarshal(exec.Result)
    IN IF r1.State = "SUCCEEDED"
         THEN IF p.err THEN [r1 EXCEPT !.Result = RawResult(exec.Result)]
                       ELSE [r1 EXCEPT !.Result = p.m]
       ELSE IF exec.Error /= <<>> THEN [r1 EXCEPT !.Error = exec.Error[1]]
       ELSE r1

\* variant: the end time and the duration are left out
GetExecutionResultNoEndTime(exec) ==
    LET r1 == NewExecutionResult(exec.Name, exec.State, exec.StartTime)
        p  == jsonUnmarshal(exec.Result)
    IN IF r1.State = "SUCCEEDED"
         THEN IF p.err THEN [r1 EXCEPT !.Result = RawResult(exec.Result)]
                       ELSE [r1 EXCEPT !.Result = p.m]
       ELSE IF r1.State = "FAILED"
         THEN IF exec.Error /= <<>> THEN [r1 EXCEPT !.Error = exec.Error[1]] ELSE r1
       ELSE r1

\* the record GetExecution builds from the execution it read
GetExecutionResult(exec) ==
    LET r0 == NewExecutionResult(exec.Name, exec.State, exec.StartTime)
        r1 == IF exec.EndTime /= ZeroTime
                THEN [r0 EXCEPT !.EndTime = exec.EndTime,
                                !.Duration = Sub(exec.EndTime, r0.StartTime)]
                ELSE r0
        p  == jsonUnmarshal(exec.Result)
    IN IF r1.State = "SUCCEEDED"
         THEN IF p.err THEN [r1 EXCEPT !.Result = RawResult(exec.Result)]
                       ELSE [r1 EXCEPT !.Result = p.m]
       ELSE IF r1.State = "FAILED"
         THEN IF exec.Error /= <<>> THEN [r1 EXCEPT !.Error = exec.Error[1]] ELSE r1
       ELSE r1

\* variant: only a success ends the wait
WaitIsFinishedOnSuccess(state) == state = "SUCCEEDED"

\* variant: QUEUED is forgotten
WaitIsFinishedNotActive(state) == state /= "ACTIVE"

\* variant: a cancelled execution is taken for a running one
WaitIsFinishedNotCancelled(state) == state \in {"SUCCEEDED", "FAILED"}

\* WaitForCompletion's test of the state it read
WaitIsFinished(state) == state /= "ACTIVE" /\ state /= "QUEUED"

\* variant: the failure context is not copied
WaitResultNoContext(exec) ==
    LET r0 == NewExecutionResult(exec.Name, exec.State, exec.StartTime)
        p  == jsonUnmarshal(exec.Result)
    IN IF exec.State = "SUCCEEDED"
         THEN IF p.err THEN [r0 EXCEPT !.Result = RawResult(exec.Result)]
                       ELSE [r0 EXCEPT !.Result = p.m]
         ELSE r0

\* the record WaitForCompletion builds from the execution it read
WaitResult(exec) ==
    LET state == exec.State
        r0 == NewExecutionResult(exec.Name, state, exec.StartTime)
        r1 == IF exec.EndTime /= ZeroTime
                THEN [r0 EXCEPT !.EndTime = exec.EndTime,
                                !.Duration = Sub(exec.EndTime, r0.StartTime)]
                ELSE r0
        p  == jsonUnmarshal(exec.Result)
    IN CASE state = "SUCCEEDED" ->
              IF p.err THEN [r1 EXCEPT !.Result = RawResult(exec.Result)]
                       ELSE [r1 EXCEPT !.Result = p.m]
         [] state = "FAILED" ->
              IF exec.Error /= <<>> THEN [r1 EXCEPT !.Error = exec.Error[1]] ELSE r1
         [] OTHER -> r1

\* variant: the interval doubles without a cap
NextPollIntervalNoCap(p) == p * 2

\* the next poll interval, computed after a sleep
NextPollInterval(p) ==
    IF p < maxPoll
      THEN IF p * 2 > maxPoll THEN maxPoll ELSE p * 2
      ELSE p

\* time.Duration.Round(m) for d >= 0: to the nearest multiple, halves away from zero
Round(d, m) ==
    IF m <= 0 THEN d
    ELSE LET r == d % m IN IF r + r < m THEN d - r ELSE d + m - r

\* a string: empty, or the text Duration.String() gives a whole number of milliseconds
EmptyString == [empty |-> TRUE, ms |-> 0]
DurationString(d) == [empty |-> FALSE, ms |-> d \div TicksPerMs]

\* variant: the duration is computed without looking for an end time
NewExecutionInfoNoGuard(exec) ==
    [ID |-> exec.Name[Len(exec.Name)], State |-> exec.State,
     StartTime |-> exec.StartTime, EndTime |-> exec.EndTime,
     Duration |-> DurationString(
         Round(IF exec.EndTime /= ZeroTime THEN Sub(exec.EndTime, exec.StartTime)
               ELSE ZeroDuration, TicksPerMs))]

\* the ExecutionInfo ListExecutions builds from one listed execution
NewExecutionInfo(exec) ==
    LET i0 == [ID |-> exec.Name[Len(exec.Name)], State |-> exec.State,
               StartTime |-> ZeroTime, EndTime |-> ZeroTime, Duration |-> EmptyString]
        i1 == IF exec.StartTime /= ZeroTime
                THEN [i0 EXCEPT !.StartTime = exec.StartTime] ELSE i0
    IN IF exec.EndTime /= ZeroTime
         THEN [i1 EXCEPT !.EndTime = exec.EndTime,
                         !.Duration = DurationString(
                             Round(Sub(exec.EndTime, i1.StartTime), TicksPerMs))]
         ELSE i1

(***************************************************************************)
(* State.                                                                  *)
(***************************************************************************)
VARIABLES
    remote,        \* the execution as the service holds it (State "ABSENT": none yet)
    ctx,           \* the context of the running call: "live", "deadline", "cancelled"
    firedAt,       \* where the call stood when its context was done ("none": not done)
    pc,            \* position of the client inside the running operation
    op,            \* the operation running: GetExecution, WaitForCompletion, Run
    pollInterval,  \* WaitForCompletion's pollInterval, in milliseconds
    ret,           \* what the operation returned: handle, record, error
    obs,           \* the answers of the GetExecution requests of this call, in order
    lastExec,      \* the execution the last successful GetExecution request read
    sleeps,        \* the timers WaitForCompletion started in this call, in order
    rpcLog,        \* the requests this call sent to the service, in order
    calls,         \* operations started so far
    prevErr,       \* the kind of the error the previous operation returned
    execs,         \* the executions the service lists for the workflow, newest first
    limit,         \* ListExecutions' limit
    failAt,        \* the position at which the listing fails (0: nowhere)
    it,            \* executions the iterator has handed out
    result,        \* ListExecutions' result slice
    lpc,           \* position inside ListExecutions
    lret,          \* what ListExecutions returned
    pending,       \* the callbacks the execution waits on at the service, in order
    data,          \* the text of the resume command's --data flag
    wait,          \* the resume command's --wait flag
    httpLog,       \* the HTTP requests sent over the callback transport, in order
    httpResp,      \* the last HTTP response received, and the listing it carried
    callbacks,     \* the CallbackInfo slice ListCallbacks returned
    cmdErr,        \* the error the resume command returned
    got,           \* the record the resume command's GetExecution returned
    clsAction,     \* the action label given to wrapAuthError
    clsMsg,        \* the message of the error given to wrapAuthError
    clsErr,        \* the error wrapAuthError returned
    cmd,           \* the command running ("none": none)
    project,       \* the variable behind --project
    region,        \* the variable behind --region
    outputFormat,  \* the variable behind --output
    async,         \* the run command's --async flag
    execClient,    \* Client.execClient: "nil", "open" or "closed"
    workflowClient,\* Client.workflowClient: "nil", "open" or "closed"
    proc,          \* the process: "idle", "running", "returned" (RunE returned),
                   \* "exited" (os.Exit)
    shown,         \* what the command printed on standard output
    resourceType,  \* the resource type argument of ops get and ops describe
    payload,       \* the argument map the command gave to the workflow
    flags,         \* the flags given on the command line
    env,           \* the environment of the process
    cfg            \* the Config read from the config file

coreVars == <<remote, ctx, firedAt, pc, op, pollInterval, ret, obs, lastExec,
              sleeps, rpcLog, calls, prevErr>>
listVars == <<execs, limit, failAt, it, result, lpc, lret>>
cmdVars == <<pending, data, wait, httpLog, httpResp, callbacks, cmdErr, got>>
clsVars == <<clsAction, clsMsg, clsErr>>
opsVars == <<cmd, project, region, outputFormat, async, execClient, workflowClient,
             proc, shown, resourceType, payload, flags, env, cfg>>
extVars == <<cmdVars, clsVars, opsVars>>
vars == <<remote, ctx, firedAt, pc, op, pollInterval, ret, obs, lastExec,
          sleeps, rpcLog, calls, prevErr, execs, limit, failAt, it, result, lpc, lret,
          pending, data, wait, httpLog, httpResp, callbacks, cmdErr, got,
          clsAction, clsMsg, clsErr,
          cmd, project, region, outputFormat, async, execClient, workflowClient,
          proc, shown, resourceType, payload, flags, env, cfg>>

(***************************************************************************)
(* The remote service.                                                     *)
(***************************************************************************)
AbsentExec == Execution(ExecName, "ABSENT", ZeroTime, ZeroTime, <<>>, <<>>)

ErrContexts == {"step failed: HTTP 500"}

\* result texts the service returns in the lifecycle specification
SmallTexts ==
    {<<"{", "\"items\"", ":", "[", "]", "}">>, <<"null">>, <<"oops">>}

\* what the service can hold for an execution in the given state: the start time
\* is always set, the end time is set exactly when the execution has finished and
\* lies after the start time, the result is set only after success, the error
\* only after a failure or a cancellation
ExecutionsIn(name, state, starts, texts) ==
    UNION {
      {Execution(name, state, s, e, r, x) :
          e \in IF state \in TerminalStates THEN {s + d : d \in 1..MaxDur}
                ELSE {ZeroTime},
          r \in IF state = "SUCCEEDED" THEN texts ELSE {<<>>},
          x \in IF state = "FAILED" THEN {<<c>> : c \in ErrContexts}
                ELSE IF state = "CANCELLED"
                  THEN {<<>>} \cup {<<c>> : c \in ErrContexts}
                ELSE {<<>>}} :
      s \in starts}

\* the service moves the execution on: QUEUED -> ACTIVE -> a terminal state
RemoteAdvance ==
    /\ remote.State \in {"QUEUED", "ACTIVE"}
    /\ \E n \in IF remote.State = "QUEUED" THEN {"ACTIVE"} ELSE TerminalStates :
         remote' \in ExecutionsIn(remote.Name, n, {remote.StartTime}, SmallTexts)
    /\ UNCHANGED <<ctx, firedAt, pc, op, pollInterval, ret, obs, lastExec, sleeps,
                   rpcLog, calls>>
    /\ UNCHANGED <<prevErr, execs, limit, failAt, it, result, lpc, lret, extVars>>

\* messages of the failures of the transport
TransportMsgs ==
    {<<"rpc error: code = Unavailable desc = connection reset">>,
     <<"rpc error: code = ", "PermissionDenied", " desc = caller lacks permission">>}
NotFoundMsg == <<"rpc error: code = ", "NotFound", " desc = execution does not exist">>

Answer(ok, exec, msg) == [ok |-> ok, exec |-> exec, msg |-> msg]

\* the answers c.execClient.GetExecution(ctx, ...) can give now
GetExecutionAnswers ==
    IF ctx /= "live" THEN {Answer(FALSE, AbsentExec, CtxRpcMsg(ctx))}
    ELSE {Answer(FALSE, AbsentExec, m) : m \in TransportMsgs}
         \cup (IF remote.State = "ABSENT"
                 THEN {Answer(FALSE, AbsentExec, NotFoundMsg)}
                 ELSE {Answer(TRUE, remote, <<>>)})

\* the answers c.execClient.CreateExecution(ctx, ...) can give now
CreateExecutionAnswers ==
    IF ctx /= "live" THEN {Answer(FALSE, AbsentExec, CtxRpcMsg(ctx))}
    ELSE {Answer(FALSE, AbsentExec, m) : m \in TransportMsgs}
         \cup {Answer(TRUE, e, <<>>) :
                 e \in ExecutionsIn(ExecName, "QUEUED", 1..MaxStart, SmallTexts)
                       \cup ExecutionsIn(ExecName, "ACTIVE", 1..MaxStart, SmallTexts)}

\* the deadline of the context passes, or the caller cancels it
CtxDone ==
    /\ ctx = "live"
    /\ pc \in {"create_rpc", "get_rpc", "poll", "wait_rpc", "select", "list_http",
               "trigger_http"}
    /\ ctx' \in {"deadline", "cancelled"}
    /\ firedAt' = pc
    /\ UNCHANGED <<remote, pc, op, pollInterval, ret, obs, lastExec, sleeps, rpcLog,
                   calls>>
    /\ UNCHANGED <<prevErr, execs, limit, failAt, it, result, lpc, lret, extVars>>

(***************************************************************************)
(* The client.                                                             *)
(***************************************************************************)
NoRet == [name |-> <<>>, rec |-> <<>>, err |-> NoErr]
Ret(name, rec, err) == [name |-> name, rec |-> rec, err |-> err]

\* a new operation starts with nothing sent and nothing observed
Begin(o, p) ==
    /\ pc = "idle"
    /\ calls < MaxCalls
    /\ calls' = calls + 1
    /\ op' = o
    /\ pc' = p
    /\ ret' = NoRet
    /\ obs' = <<>>
    /\ sleeps' = <<>>
    /\ lastExec' = AbsentExec

\* GetExecution: the request is sent
GetExecution ==
    /\ Begin("GetExecution", "get_rpc")
    /\ rpcLog' = <<"GetExecution">>
    /\ UNCHANGED <<remote, ctx, firedAt, pollInterval>>
    /\ UNCHANGED <<prevErr, execs, limit, failAt, it, result, lpc, lret, extVars>>

\* GetExecution: the answer arrives and the record is built
GetExecutionReturn ==
    /\ pc = "get_rpc"
    /\ \E a \in GetExecutionAnswers :
         /\ obs' = Append(obs, IF a.ok THEN a.exec.State ELSE "ERR")
         /\ lastExec' = IF a.ok THEN a.exec ELSE lastExec
         /\ ret' = IF a.ok
                     THEN Ret(<<>>, <<GetExecutionResult(a.exec)>>, NoErr)
                     ELSE Ret(<<>>, <<>>, wrapAuthError("getting execution status", a.msg))
    /\ pc' = "done"
    /\ UNCHANGED <<remote, ctx, firedAt, op, pollInterval, sleeps, rpcLog, calls>>
    /\ UNCHANGED <<prevErr, execs, limit, failAt, it, result, lpc, lret, extVars>>

\* WaitForCompletion is entered: pollInterval := 500ms
WaitForCompletion ==
    /\ Begin("WaitForCompletion", "poll")
    /\ pollInterval' = InitialPollInterval
    /\ rpcLog' = <<>>
    /\ UNCHANGED <<remote, ctx, firedAt>>
    /\ UNCHANGED <<prevErr, execs, limit, failAt, it, result, lpc, lret, extVars>>

\* head of the loop: the GetExecution request is sent
WaitPoll ==
    /\ pc = "poll"
    /\ Len(obs) < MaxPolls
    /\ pc' = "wait_rpc"
    /\ rpcLog' = Append(rpcLog, "GetExecution")
    /\ UNCHANGED <<remote, ctx, firedAt, op, pollInterval, ret, obs, lastExec, sleeps,
                   calls>>
    /\ UNCHANGED <<prevErr, execs, limit, failAt, it, result, lpc, lret, extVars>>

\* variant: a failed request is taken for a running execution and polled again
WaitAnswerRetryOnError ==
    /\ pc = "wait_rpc"
    /\ \E a \in GetExecutionAnswers :
         /\ obs' = Append(obs, IF a.ok THEN a.exec.State ELSE "ERR")
         /\ lastExec' = IF a.ok THEN a.exec ELSE lastExec
         /\ IF a.ok /\ WaitIsFinished(a.exec.State)
              THEN /\ ret' = Ret(ret.name, <<WaitResult(a.exec)>>, NoErr)
                   /\ pc' = "done"
                   /\ sleeps' = sleeps
              ELSE /\ ret' = ret
                   /\ pc' = "select"
                   /\ sleeps' = Append(sleeps, pollInterval)
    /\ UNCHANGED <<remote, ctx, firedAt, op, pollInterval, rpcLog, calls>>
    /\ UNCHANGED <<prevErr, execs, limit, failAt, it, result, lpc, lret, extVars>>

\* the answer arrives: an error and a finished execution return, anything else
\* starts the timer of the select
WaitAnswer ==
    /\ pc = "wait_rpc"
    /\ \E a \in GetExecutionAnswers :
         /\ obs' = Append(obs, IF a.ok THEN a.exec.State ELSE "ERR")
         /\ lastExec' = IF a.ok THEN a.exec ELSE lastExec
         /\ IF ~a.ok
              THEN /\ ret' = Ret(ret.name, <<>>,
                                 wrapAuthError("checking execution status", a.msg))
                   /\ pc' = "done"
                   /\ sleeps' = sleeps
              ELSE IF WaitIsFinished(a.exec.State)
                THEN /\ ret' = Ret(ret.name, <<WaitResult(a.exec)>>, NoErr)
                     /\ pc' = "done"
                     /\ sleeps' = sleeps
                ELSE /\ ret' = ret
                     /\ pc' = "select"
                     /\ sleeps' = Append(sleeps, pollInterval)
    /\ UNCHANGED <<remote, ctx, firedAt, op, pollInterval, rpcLog, calls>>
    /\ UNCHANGED <<prevErr, execs, limit, failAt, it, result, lpc, lret, extVars>>

\* variant: a cancelled wait also cancels the execution on the service
WaitCtxDoneAborts ==
    /\ pc = "select"
    /\ ctx /= "live"
    /\ ret' = Ret(ret.name, <<>>, CtxErr(ctx))
    /\ pc' = "done"
    /\ rpcLog' = Append(rpcLog, "CancelExecution")
    /\ remote' = [remote EXCEPT !.State = "CANCELLED", !.EndTime = remote.StartTime + 1]
    /\ UNCHANGED <<ctx, firedAt, op, pollInterval, obs, lastExec, sleeps, calls>>
    /\ UNCHANGED <<prevErr, execs, limit, failAt, it, result, lpc, lret, extVars>>

\* select, case <-ctx.Done(): return nil, ctx.Err().  The timer of the select is
\* started when the select is entered, so a context that is done by then, or is
\* done first while the select blocks, decides the select.
WaitCtxDone ==
    /\ pc = "select"
    /\ ctx /= "live"
    /\ ret' = Ret(ret.name, <<>>, CtxErr(ctx))
    /\ pc' = "done"
    /\ UNCHANGED <<remote, ctx, firedAt, op, pollInterval, obs, lastExec, sleeps,
                   rpcLog, calls>>
    /\ UNCHANGED <<prevErr, execs, limit, failAt, it, result, lpc, lret, extVars>>

\* select, case <-time.After(pollInterval): the interval doubles up to maxPoll
WaitTimer ==
    /\ pc = "select"
    /\ ctx = "live"
    /\ pollInterval' = NextPollInterval(pollInterval)
    /\ pc' = "poll"
    /\ UNCHANGED <<remote, ctx, firedAt, op, ret, obs, lastExec, sleeps, rpcLog, calls>>
    /\ UNCHANGED <<prevErr, execs, limit, failAt, it, result, lpc, lret, extVars>>

\* Run, Execute: the CreateExecution request is sent
Run ==
    /\ Begin("Run", "create_rpc")
    /\ remote.State = "ABSENT"
    /\ rpcLog' = <<"CreateExecution">>
    /\ UNCHANGED <<remote, ctx, firedAt, pollInterval>>
    /\ UNCHANGED <<prevErr, execs, limit, failAt, it, result, lpc, lret, extVars>>

\* Run: Execute returns; on success WaitForCompletion is entered with the handle
RunExecuteReturn ==
    /\ pc = "create_rpc"
    /\ \E a \in CreateExecutionAnswers :
         IF a.ok
           THEN /\ remote' = a.exec
                /\ ret' = Ret(a.exec.Name, <<>>, NoErr)
                /\ pollInterval' = InitialPollInterval
                /\ pc' = "poll"
           ELSE /\ remote' = remote
                /\ ret' = Ret(<<>>, <<>>, wrapAuthError("executing workflow", a.msg))
                /\ pollInterval' = pollInterval
                /\ pc' = "done"
    /\ UNCHANGED <<ctx, firedAt, op, obs, lastExec, sleeps, rpcLog, calls>>
    /\ UNCHANGED <<prevErr, execs, limit, failAt, it, result, lpc, lret, extVars>>

\* the caller takes the result; the next operation gets a context of its own
Return ==
    /\ pc = "done"
    /\ calls < MaxCalls
    /\ pc' = "idle"
    /\ ctx' = "live"
    /\ firedAt' = "none"
    /\ prevErr' = ret.err.kind
    /\ UNCHANGED <<remote, op, pollInterval, ret, obs, lastExec, sleeps, rpcLog, calls>>
    /\ UNCHANGED <<listVars, extVars>>

ListIdle ==
    /\ execs = <<>> /\ limit = 0 /\ failAt = 0 /\ it = 0 /\ result = <<>>
    /\ lpc = "off" /\ lret = [list |-> <<>>, err |-> NoErr]

\* no HTTP response received yet
NoResp == [status |-> 0, body |-> <<>>, listing |-> <<>>]

\* the error a command returns: its own message, or a label wrapping (%w) the
\* error of a client operation
NoCmdErr == [kind |-> "nil", label |-> "", inner |-> NoErr]
CmdErr(kind, label, inner) == [kind |-> kind, label |-> label, inner |-> inner]

\* no resume command is running
CmdIdle ==
    /\ pending = <<>> /\ data = <<>> /\ wait = FALSE /\ httpLog = <<>>
    /\ httpResp = NoResp /\ callbacks = <<>> /\ cmdErr = NoCmdErr /\ got = <<>>

\* wrapAuthError is not being called
ClsIdle == clsAction = "" /\ clsMsg = <<>> /\ clsErr = NoErr

\* no flag given, nothing in the environment, no config file
NoFlags == [project |-> <<>>, region |-> <<>>, output |-> <<>>, namespace |-> ""]
NoEnv == [GCPHCP_PROJECT |-> "", GCPHCP_REGION |-> ""]
NoConfig == [Project |-> "", Region |-> "", Output |-> ""]

\* no command is running
OpsIdle ==
    /\ cmd = "none" /\ project = "" /\ region = "" /\ outputFormat = "text"
    /\ async = FALSE /\ execClient = "nil" /\ workflowClient = "nil"
    /\ proc = "idle" /\ shown = <<>> /\ resourceType = "" /\ payload = NilMap
    /\ flags = NoFlags /\ env = NoEnv /\ cfg = NoConfig

Init ==
    /\ remote \in {AbsentExec}
                  \cup UNION {ExecutionsIn(ExecName, s, 1..MaxStart, SmallTexts) :
                                s \in RemoteStates}
    /\ ctx = "live"
    /\ firedAt = "none"
    /\ pc = "idle"
    /\ op = "none"
    /\ pollInterval = InitialPollInterval
    /\ ret = NoRet
    /\ obs = <<>>
    /\ lastExec = AbsentExec
    /\ sleeps = <<>>
    /\ rpcLog = <<>>
    /\ calls = 0
    /\ prevErr = "none"
    /\ ListIdle
    /\ CmdIdle
    /\ ClsIdle
    /\ OpsIdle

Next ==
    \/ RemoteAdvance
    \/ CtxDone
    \/ GetExecution
    \/ GetExecutionReturn
    \/ WaitForCompletion
    \/ WaitPoll
    \/ WaitAnswer
    \/ WaitCtxDone
    \/ WaitTimer
    \/ Run
    \/ RunExecuteReturn
    \/ Return

Spec == Init /\ [][Next]_vars

(***************************************************************************)
(* Result texts for the readers on a frozen execution.                    *)
(***************************************************************************)
\* every token sequence up to MaxTextLen
ShortTexts == UNION {[1..n -> JsonToks] : n \in 0..MaxTextLen}

\* longer result texts: objects, other values, and damaged texts
SampleTexts ==
    {<<"{", "\"items\"", ":", "[", "]", "}">>,
     <<"{", "\"a\"", ":", "1", "}">>,
     <<"{", "\"a\"", ":", "{", "\"items\"", ":", "[", "1", ",", "null", "]", "}", "}">>,
     <<"{", "\"a\"", ":", "1", ",", "\"items\"", ":", "null", "}">>,
     <<"{", "\"a\"", ":", "1", ",", "\"a\"", ":", "null", "}">>,
     <<"[", "1", ",", "\"a\"", "]">>,
     <<"[", "{", "}", "]">>,
     <<"{", "\"items\"", ":", "[", "}">>,
     <<"{", "\"a\"", ":", "1", "}", "oops">>,
     <<"{", "\"a\"", "1", "}">>,
     <<"{", "1", ":", "\"a\"", "}">>,
     <<"{", "\"a\"", ":", "1", ",", "}">>}

ResultTexts == ShortTexts \cup SampleTexts

InitRecord ==
    /\ remote \in UNION {ExecutionsIn(ExecName, s, 1..MaxStart, SmallTexts) :
                           s \in RemoteStates}
                  \cup {Execution(ExecName, "SUCCEEDED", 1, 2, t, <<>>) :
                          t \in ResultTexts}
    /\ ctx = "live"
    /\ firedAt = "none"
    /\ pc = "idle"
    /\ op = "none"
    /\ pollInterval = InitialPollInterval
    /\ ret = NoRet
    /\ obs = <<>>
    /\ lastExec = AbsentExec
    /\ sleeps = <<>>
    /\ rpcLog = <<>>
    /\ calls = 0
    /\ prevErr = "none"
    /\ ListIdle
    /\ CmdIdle
    /\ ClsIdle
    /\ OpsIdle

(***************************************************************************)
(* ListExecutions.                                                         *)
(***************************************************************************)
ListName(i) == <<"workflows", "get", "executions", i>>

\* what the service can list at position i (the listing carries no result or error)
ListedExecutions(i) ==
    {Execution(ListName(i), s, 1, e, <<>>, <<>>) :
       s \in RemoteStates \ TerminalStates, e \in {ZeroTime}}
    \cup {Execution(ListName(i), s, 1, 1 + d, <<>>, <<>>) :
            s \in TerminalStates, d \in 1..MaxDur}

ListRet(list, err) == [list |-> list, err |-> err]

\* ListExecutions is entered: an empty result and a fresh iterator
ListExecutions ==
    /\ lpc = "idle"
    /\ lpc' = "next"
    /\ it' = 0
    /\ result' = <<>>
    /\ UNCHANGED <<execs, limit, failAt, lret>>
    /\ UNCHANGED <<coreVars, extVars>>

\* one turn of the loop: it.Next(), then the record is built and appended
ListNext ==
    /\ lpc = "next"
    /\ IF it = Len(execs) /\ failAt /= it + 1
         THEN \* iterator.Done
              /\ lret' = ListRet(result, NoErr)
              /\ lpc' = "done"
              /\ UNCHANGED <<it, result>>
       ELSE IF failAt = it + 1
         THEN /\ lret' = ListRet(<<>>, wrapAuthError("listing executions",
                   <<"rpc error: code = Unavailable desc = connection reset">>))
              /\ lpc' = "done"
              /\ UNCHANGED <<it, result>>
       ELSE /\ it' = it + 1
            /\ result' = Append(result, NewExecutionInfo(execs[it + 1]))
            /\ IF Len(result') >= limit
                 THEN lret' = ListRet(result', NoErr) /\ lpc' = "done"
                 ELSE lret' = lret /\ lpc' = "next"
    /\ UNCHANGED <<execs, limit, failAt>>
    /\ UNCHANGED <<coreVars, extVars>>

InitList ==
    /\ remote = AbsentExec
    /\ ctx = "live"
    /\ firedAt = "none"
    /\ pc = "off"
    /\ op = "ListExecutions"
    /\ pollInterval = InitialPollInterval
    /\ ret = NoRet
    /\ obs = <<>>
    /\ lastExec = AbsentExec
    /\ sleeps = <<>>
    /\ rpcLog = <<>>
    /\ calls = 0
    /\ prevErr = "none"
    /\ \E n \in 0..MaxExecs :
         /\ execs \in {q \in [1..n -> UNION {ListedExecutions(i) : i \in 1..n}] :
                          \A i \in 1..n : q[i].Name = ListName(i)}
         /\ failAt \in 0..(n + 1)
    /\ limit \in 0..MaxLimit
    /\ it = 0
    /\ result = <<>>
    /\ lpc = "idle"
    /\ lret = ListRet(<<>>, NoErr)
    /\ CmdIdle
    /\ ClsIdle
    /\ OpsIdle


(***************************************************************************)
(* The readers alone: one invocation reads a frozen execution with        *)
(* GetExecution and WaitForCompletion, or lists the executions.           *)
(***************************************************************************)
InitReaders == InitRecord \/ InitList

NextReaders ==
    \/ GetExecution
    \/ GetExecutionReturn
    \/ WaitForCompletion
    \/ WaitPoll
    \/ WaitAnswer
    \/ WaitTimer
    \/ Return
    \/ ListExecutions
    \/ ListNext

SpecReaders == InitReaders /\ [][NextReaders]_vars

(***************************************************************************)
(* Properties.                                                             *)
(***************************************************************************)
\* the running operation polls: WaitForCompletion, alone or inside Run
Waiting == op \in {"WaitForCompletion", "Run"}

\* the operation has returned (and the caller may have taken the result)
Returned == pc \in {"done", "idle"} /\ calls > 0

\* GetExecution requests this call has sent
GetExecutionsSent == Cardinality({j \in DOMAIN rpcLog : rpcLog[j] = "GetExecution"})

\* C1: in a WaitForCompletion call the first GetExecution answer that reports a
\* terminal state is the last request of the call: the call has returned the
\* record of that state, has sent no request and started no sleep after it; a
\* terminal first answer therefore means one request and no sleep.
C1_TerminalReadIsLast ==
    Waiting =>
      \A i \in DOMAIN obs :
        obs[i] \in TerminalStates =>
          /\ i = Len(obs)
          /\ Returned
          /\ ret.err = NoErr
          /\ Len(ret.rec) = 1
          /\ ret.rec[1].State = obs[i]
          /\ GetExecutionsSent = i
          /\ Len(sleeps) = i - 1

\* a wait that returned a terminal record on its third request
C1_Witness ==
    /\ op = "WaitForCompletion"
    /\ pc = "done"
    /\ Len(obs) = 3
    /\ obs[3] \in TerminalStates
    /\ ret.err = NoErr

\* C2: the k-th sleep of a WaitForCompletion call follows its k-th answer, which
\* reported a running execution, and lasts 500 ms for k = 1, 1000 ms for k = 2 and
\* 2000 ms from k = 3 on.
C2_BackoffSequence ==
    Waiting =>
      /\ \A k \in DOMAIN sleeps :
           /\ k <= Len(obs)
           /\ obs[k] \in {"QUEUED", "ACTIVE"}
           /\ sleeps[k] = IF k = 1 THEN 500 ELSE IF k = 2 THEN 1000 ELSE 2000
      /\ pc = "select" => pollInterval = sleeps[Len(sleeps)]

\* a wait that has started its fifth sleep: the cap was reached and held
C2_Witness ==
    /\ op = "WaitForCompletion"
    /\ Len(sleeps) >= 5
    /\ sleeps[5] = maxPoll

\* C3: a GetExecution request of WaitForCompletion that fails ends the call: the
\* call has returned the error wrapAuthError made of the failure and no record,
\* and has sent no request and started no sleep after it.
C3_TransportErrorAborts ==
    Waiting =>
      \A i \in DOMAIN obs :
        obs[i] = "ERR" =>
          /\ i = Len(obs)
          /\ Returned
          /\ ret.rec = <<>>
          /\ ret.err.kind \in AuthKinds \cup {"Unclassified"}
          /\ ret.err.action = "checking execution status"
          /\ GetExecutionsSent = i
          /\ Len(sleeps) = i - 1

\* a wait whose third request failed in the transport, after two good polls
C3_Witness ==
    /\ op = "WaitForCompletion"
    /\ pc = "done"
    /\ ctx = "live"
    /\ Len(obs) = 3
    /\ obs[3] = "ERR"
    /\ obs[1] \in {"QUEUED", "ACTIVE"}
    /\ obs[2] \in {"QUEUED", "ACTIVE"}

\* the kinds of the errors ctx.Err() returns
CancelKinds == {"DeadlineExceeded", "Canceled"}

\* C4: a WaitForCompletion call whose context was done during the backoff sleep
\* or while a GetExecution request was in flight returns a cancellation error,
\* never an error of the transport or of a classified cause.
C4_CancelIsCancellationError ==
    (Waiting /\ pc = "done" /\ ctx /= "live" /\ firedAt \in {"wait_rpc", "select"})
      => /\ ret.rec = <<>>
         /\ ret.err.kind \in CancelKinds

\* C5: a WaitForCompletion call whose deadline passed while the execution stayed
\* ACTIVE returns the deadline error, and when the deadline passed during a sleep
\* no request follows that sleep.
C5_DeadlineEndsWait ==
    (/\ Waiting /\ pc = "done" /\ ctx = "deadline"
     /\ firedAt \in {"wait_rpc", "select"}
     /\ remote.State = "ACTIVE")
      => /\ ret.err.kind = "DeadlineExceeded"
         /\ firedAt = "select" => GetExecutionsSent = Len(sleeps)

\* C6 as claimed: WaitForCompletion returns a record exactly when the state it
\* read is SUCCEEDED, FAILED or CANCELLED, and sleeps after every other state.
C6_RecordOnlyWhenTerminal ==
    Waiting =>
      /\ \A i \in DOMAIN obs :
           obs[i] \notin TerminalStates \cup {"ERR"} => Len(sleeps) >= i
      /\ ret.rec /= <<>> => ret.rec[1].State \in TerminalStates

\* C6, amended: WaitForCompletion returns a record exactly when the state it read
\* is neither QUEUED nor ACTIVE (SUCCEEDED, FAILED, CANCELLED, and also an
\* unspecified or unavailable state); after QUEUED and after ACTIVE it sleeps and
\* returns no record, so a returned record is never QUEUED or ACTIVE.
C6_RecordWhenNotRunning ==
    Waiting =>
      /\ \A i \in DOMAIN obs :
           /\ obs[i] \in {"QUEUED", "ACTIVE"} =>
                /\ Len(sleeps) >= i
                /\ i = Len(obs) => ret.rec = <<>>
           /\ obs[i] \notin {"QUEUED", "ACTIVE", "ERR"} =>
                /\ i = Len(obs)
                /\ Returned
                /\ ret.err = NoErr
                /\ Len(ret.rec) = 1
                /\ ret.rec[1].State = obs[i]
      /\ ret.rec /= <<>> =>
           /\ obs /= <<>>
           /\ ret.rec[1].State = obs[Len(obs)]
           /\ ret.rec[1].State \notin {"QUEUED", "ACTIVE"}

\* a wait that slept after QUEUED and after ACTIVE and returned on CANCELLED
C6_Witness ==
    /\ op = "WaitForCompletion"
    /\ pc = "done"
    /\ obs = <<"QUEUED", "ACTIVE", "CANCELLED">>
    /\ Len(sleeps) = 2
    /\ Len(ret.rec) = 1
    /\ ret.rec[1].State = "CANCELLED"

\* C7: after the execution is created, WaitForCompletion and Run send only
\* GetExecution requests; the execution on the service changes only by the
\* service's own steps and by CreateExecution, so a wait that ends by
\* cancellation leaves it as it was.
C7_WaitIsDetach ==
    /\ [](Waiting =>
            \A j \in DOMAIN rpcLog :
              \/ rpcLog[j] = "GetExecution"
              \/ j = 1 /\ op = "Run" /\ rpcLog[j] = "CreateExecution")
    /\ [][remote' /= remote =>
            \/ pc' = pc
            \/ pc = "create_rpc" /\ remote.State = "ABSENT"]_vars
    /\ [][(pc = "select" /\ pc' = "done") =>
            (ret'.err.kind \in CancelKinds /\ remote' = remote)]_vars

\* after a cancelled wait, a later GetExecution sees the execution completed
C7_Witness ==
    /\ prevErr = "Canceled"
    /\ op = "GetExecution"
    /\ pc = "done"
    /\ Len(ret.rec) = 1
    /\ ret.rec[1].State = "SUCCEEDED"

\* C8: when the last answer reports FAILED, the operation returns the record with
\* state FAILED and the failure context of the execution, and a nil error.
C8_FailedIsARecord ==
    (Returned /\ obs /= <<>> /\ obs[Len(obs)] = "FAILED")
      => /\ ret.err = NoErr
         /\ Len(ret.rec) = 1
         /\ ret.rec[1].State = "FAILED"
         /\ lastExec.Error /= <<>>
         /\ ret.rec[1].Error = lastExec.Error[1]
         /\ ret.rec[1].Error \in ErrContexts

\* Run created an execution that failed, and returned its record
C8_Witness ==
    /\ op = "Run"
    /\ pc = "done"
    /\ ret.name = ExecName
    /\ ret.err = NoErr
    /\ Len(ret.rec) = 1
    /\ ret.rec[1].State = "FAILED"
    /\ ret.rec[1].Error = "step failed: HTTP 500"

\* the distance of a duration text from a duration, in ticks
TextOff(text, d) ==
    IF text.ms * TicksPerMs >= d THEN text.ms * TicksPerMs - d
    ELSE d - text.ms * TicksPerMs

\* C9 for the records of GetExecution and WaitForCompletion: the duration is
\* set exactly when the end time is, is unset in QUEUED and ACTIVE, and is the
\* end time minus the start time of the execution read in a terminal state.
DurationOfRecord ==
    (Returned /\ ret.rec /= <<>>) =>
      LET r == ret.rec[1] IN
        /\ r.Duration /= ZeroDuration <=> r.EndTime /= ZeroTime
        /\ r.State \in {"QUEUED", "ACTIVE"} => r.Duration = ZeroDuration
        /\ r.State \in TerminalStates =>
             /\ r.EndTime = lastExec.EndTime
             /\ r.StartTime = lastExec.StartTime
             /\ r.Duration = lastExec.EndTime - lastExec.StartTime

\* C9 as claimed: every record of GetExecution, WaitForCompletion and
\* ListExecutions has its duration set exactly when its end time is set, unset
\* in QUEUED and ACTIVE, and equal to end time minus start time when terminal.
C9_DurationIsEndMinusStart ==
    /\ DurationOfRecord
    /\ \A i \in DOMAIN result :
         LET r == result[i] IN
           /\ ~r.Duration.empty <=> r.EndTime /= ZeroTime
           /\ r.State \in {"QUEUED", "ACTIVE"} => r.Duration.empty
           /\ r.State \in TerminalStates =>
                /\ ~r.Duration.empty
                /\ TextOff(r.Duration, execs[i].EndTime - execs[i].StartTime) = 0

\* C9, amended: as claimed for GetExecution and WaitForCompletion; a record of
\* ListExecutions carries the duration as text, which is end time minus start
\* time rounded to the nearest millisecond.
C9_DurationRoundedInList ==
    /\ DurationOfRecord
    /\ \A i \in DOMAIN result :
         LET r == result[i] IN
           /\ ~r.Duration.empty <=> r.EndTime /= ZeroTime
           /\ r.State \in {"QUEUED", "ACTIVE"} => r.Duration.empty
           /\ r.State \in TerminalStates =>
                /\ ~r.Duration.empty
                /\ r.EndTime = execs[i].EndTime
                /\ r.StartTime = execs[i].StartTime
                /\ 2 * TextOff(r.Duration, execs[i].EndTime - execs[i].StartTime)
                     <= TicksPerMs

\* a listing that returned a running execution without duration and a finished
\* one whose duration is not a whole number of milliseconds
C9_Witness ==
    /\ lpc = "done"
    /\ Len(lret.list) = 2
    /\ lret.list[1].State = "ACTIVE"
    /\ lret.list[1].Duration.empty
    /\ lret.list[2].State = "SUCCEEDED"
    /\ (execs[2].EndTime - execs[2].StartTime) % TicksPerMs /= 0
    /\ ~lret.list[2].Duration.empty

(***************************************************************************)
(* JSON values written out as texts, to state what a result text denotes   *)
(* without the parser.                                                     *)
(***************************************************************************)
KeyOrder == <<"\"a\"", "\"items\"">>
Leaves == {JNull, JNum("1"), JStr("\"a\""), JStr("\"items\"")}
Obj1(k, v) == JObj([x \in {k} |-> v])

\* values of at most two levels below the top
Values1 ==
    Leaves \cup {JArr(<<>>), JObj(EmptyMembers)}
    \cup {JArr(<<a>>) : a \in Leaves}
    \cup {JArr(<<a, b>>) : a \in Leaves, b \in Leaves}
    \cup {Obj1(k, a) : k \in StrToks, a \in Leaves}
Values2 ==
    Values1 \cup {JArr(<<a>>) : a \in Values1}
    \cup {Obj1(k, a) : k \in StrToks, a \in Values1}
SampleValues ==
    {Obj1("\"a\"", Obj1("\"items\"", JArr(<<JNum("1"), JNull>>))),
     JObj([x \in StrToks |-> IF x = "\"a\"" THEN JNum("1") ELSE JNull])}

RECURSIVE Ser(_)
RECURSIVE SerElems(_)
RECURSIVE SerMembers(_, _)
Ser(v) ==
    CASE v.t = "null" -> <<"null">>
      [] v.t = "num" -> <<v.n>>
      [] v.t = "str" -> <<v.s>>
      [] v.t = "arr" -> <<"[">> \o SerElems(v.e) \o <<"]">>
      [] v.t = "obj" ->
           <<"{">> \o SerMembers(v.m, SelectSeq(KeyOrder, LAMBDA k : k \in DOMAIN v.m))
                   \o <<"}">>
SerElems(e) ==
    IF e = <<>> THEN <<>>
    ELSE IF Len(e) = 1 THEN Ser(e[1])
    ELSE Ser(e[1]) \o <<",">> \o SerElems(Tail(e))
SerMembers(m, ks) ==
    IF ks = <<>> THEN <<>>
    ELSE IF Len(ks) = 1 THEN <<ks[1], ":">> \o Ser(m[ks[1]])
    ELSE <<ks[1], ":">> \o Ser(m[ks[1]]) \o <<",">> \o SerMembers(m, Tail(ks))

\* a result text that is a JSON object, with the object it denotes
ObjectTexts ==
    {[text |-> Ser(v), obj |-> v] : v \in {w \in Values2 \cup SampleValues : w.t = "obj"}}
    \cup {[text |-> <<"{", "\"a\"", ":", "1", ",", "\"a\"", ":", "null", "}">>,
           obj |-> Obj1("\"a\"", JNull)]}

\* the result texts that are JSON values
ValidTexts ==
    {Ser(v) : v \in Values2 \cup SampleValues} \cup {p.text : p \in ObjectTexts}

ItemsText == <<"{", "\"items\"", ":", "[", "]", "}">>

\* C10: a record of GetExecution or WaitForCompletion has a result only in state
\* SUCCEEDED and a failure context only in state FAILED; in state SUCCEEDED a
\* result text that is a JSON object gives that object, and a text that is no
\* JSON value gives the text itself under the key "raw".
C10_PayloadByState ==
    (Returned /\ ret.rec /= <<>>) =>
      LET r == ret.rec[1] IN
        /\ r.Result /= NilMap => r.State = "SUCCEEDED"
        /\ r.Error /= "" => r.State = "FAILED"
        /\ r.State = "SUCCEEDED" =>
             /\ \A p \in ObjectTexts : lastExec.Result = p.text => r.Result = p.obj
             /\ lastExec.Result \notin ValidTexts =>
                  /\ r.Result = JObj([k \in {"\"raw\""} |->
                                        [t |-> "text", s |-> lastExec.Result]])
                  /\ ret.err = NoErr
             /\ lastExec.Result = ItemsText =>
                  r.Result.m["\"items\""] = JArr(<<>>)

\* GetExecution returned a succeeded record whose result is the object with an
\* empty items sequence
C10_Witness ==
    /\ op = "GetExecution"
    /\ pc = "done"
    /\ Len(ret.rec) = 1
    /\ ret.rec[1].State = "SUCCEEDED"
    /\ lastExec.Result = ItemsText
    /\ ret.rec[1].Result = Obj1("\"items\"", JArr(<<>>))

(***************************************************************************)
(* The error classifier on its own: wrapAuthError applied to an action     *)
(* label and the message of an error.                                      *)
(***************************************************************************)
\* longest message, in phrases
MaxPhrases == 2

\* the substrings wrapAuthError looks for
TriggerPhrases ==
    {"could not find default credentials", "token expired", "oauth2: token expired",
     "PermissionDenied", "permission denied", "403", "NotFound", "not found",
     "Unauthenticated", "401"}
\* text wrapAuthError does not look for
NeutralPhrases == {"connection reset", "HTTP 500"}
ClassifierMsgs ==
    UNION {[1..n -> TriggerPhrases \cup NeutralPhrases] : n \in 0..MaxPhrases}
ActionLabels == {"listing callbacks", "getting execution status"}

InitClassifier ==
    /\ remote = AbsentExec
    /\ ctx = "live"
    /\ firedAt = "none"
    /\ pc = "off"
    /\ op = "none"
    /\ pollInterval = InitialPollInterval
    /\ ret = NoRet
    /\ obs = <<>>
    /\ lastExec = AbsentExec
    /\ sleeps = <<>>
    /\ rpcLog = <<>>
    /\ calls = 0
    /\ prevErr = "none"
    /\ ListIdle
    /\ CmdIdle
    /\ clsAction \in ActionLabels
    /\ clsMsg \in ClassifierMsgs
    /\ clsErr = NoErr
    /\ OpsIdle

\* return wrapAuthError(action, err)
Classify ==
    /\ clsErr = NoErr
    /\ clsErr' = wrapAuthError(clsAction, clsMsg)
    /\ UNCHANGED <<coreVars, listVars, cmdVars, opsVars, clsAction, clsMsg>>

NextClassifier == Classify

SpecClassifier == InitClassifier /\ [][NextClassifier]_vars

\* the cause kinds in the order the specification gives them, and the substrings
\* that stand for each
KindOrder ==
    <<"MissingCredentials", "ExpiredCredentials", "PermissionDenied",
      "ResourceNotFound", "Unauthenticated">>
TriggersOf(kind) ==
    CASE kind = "MissingCredentials" -> {"could not find default credentials"}
      [] kind = "ExpiredCredentials" -> {"token expired", "oauth2: token expired"}
      [] kind = "PermissionDenied" -> {"PermissionDenied", "permission denied", "403"}
      [] kind = "ResourceNotFound" -> {"NotFound", "not found"}
      [] kind = "Unauthenticated" -> {"Unauthenticated", "401"}
Matches(msg, kind) == \E t \in TriggersOf(kind) : Contains(msg, t)
Recognized(msg) == \E i \in DOMAIN KindOrder : Matches(msg, KindOrder[i])

\* C11: the classifier gives the kind that comes first in the order
\* MissingCredentials, ExpiredCredentials, PermissionDenied, ResourceNotFound,
\* Unauthenticated among the kinds whose substrings the message contains, and
\* Unclassified when it contains none: "403" with "not found" is
\* PermissionDenied, "NotFound" with "401" is ResourceNotFound.
C11_FirstMatchWins ==
    clsErr /= NoErr =>
      /\ \A i \in DOMAIN KindOrder :
            (/\ Matches(clsMsg, KindOrder[i])
             /\ \A j \in 1..(i - 1) : ~Matches(clsMsg, KindOrder[j]))
              => clsErr.kind = KindOrder[i]
      /\ ~Recognized(clsMsg) => clsErr.kind = "Unclassified"
      /\ (Contains(clsMsg, "403") /\ Contains(clsMsg, "not found")
             /\ ~Matches(clsMsg, "MissingCredentials")
             /\ ~Matches(clsMsg, "ExpiredCredentials"))
            => clsErr.kind = "PermissionDenied"
      /\ (Contains(clsMsg, "NotFound") /\ Contains(clsMsg, "401")
             /\ ~Matches(clsMsg, "MissingCredentials")
             /\ ~Matches(clsMsg, "ExpiredCredentials")
             /\ ~Matches(clsMsg, "PermissionDenied"))
            => clsErr.kind = "ResourceNotFound"

\* a message with "not found" before "403" has been classified PermissionDenied
C11_Witness ==
    /\ clsErr /= NoErr
    /\ clsMsg = <<"not found", "403">>
    /\ clsErr.kind = "PermissionDenied"

LoginInstruction == "Run: gcloud auth application-default login"

\* C12: a message with "could not find default credentials" becomes
\* MissingCredentials with the login instruction as remediation; a message with
\* none of the known substrings becomes Unclassified, its text is the action
\* label followed by the message as it was, and it unwraps to the original error.
C12_MissingAndUnclassified ==
    clsErr /= NoErr =>
      /\ Contains(clsMsg, "could not find default credentials")
            => /\ clsErr.kind = "MissingCredentials"
               /\ clsErr.hint = LoginInstruction
               /\ \E i \in DOMAIN ErrorText(clsErr) :
                     ErrorText(clsErr)[i] = LoginInstruction
      /\ ~Recognized(clsMsg)
            => /\ clsErr.kind = "Unclassified"
               /\ ErrorText(clsErr) = <<clsAction, ": ">> \o clsMsg
               /\ Unwrap(clsErr) = <<clsMsg>>

\* a message of two phrases with no known substring has been wrapped
C12_Witness ==
    /\ clsErr /= NoErr
    /\ clsMsg = <<"HTTP 500", "connection reset">>
    /\ clsErr.kind = "Unclassified"
    /\ Unwrap(clsErr) = <<clsMsg>>

\* msg occurs in text, phrase by phrase
OccursIn(msg, text) ==
    \E i \in 0..(Len(text) - Len(msg)) :
       \A k \in DOMAIN msg : text[i + k] = msg[k]

\* C14: whatever the kind, the error the classifier returns carries the kind,
\* a remediation hint for a recognized kind, and the original message, which
\* can be got back from it by unwrapping or from its text.
C14_CarriesKindHintAndMessage ==
    clsErr /= NoErr =>
      /\ clsErr.kind \in AuthKinds \cup {"Unclassified"}
      /\ clsErr.kind \in AuthKinds => clsErr.hint /= ""
      /\ \/ Unwrap(clsErr) = <<clsMsg>>
         \/ OccursIn(clsMsg, ErrorText(clsErr))

(***************************************************************************)
(* The callback transport: ListCallbacks and TriggerCallback over HTTP.    *)
(***************************************************************************)
\* most callbacks an execution waits on
MaxCallbacks == 2

callbacksAPIBase == "https://workflowexecutions.googleapis.com/v1"

CallbackNames == {"cb1", "cb2", "cb3"}
\* the method of a callback; the empty one stands for a listing without the field
CallbackMethods == {"POST", "GET", ""}

\* a string written as a JSON string, and a JSON string read into a Go string
Quote(str) ==
    CASE str = "cb1" -> "\"cb1\""
      [] str = "cb2" -> "\"cb2\""
      [] str = "cb3" -> "\"cb3\""
      [] str = "POST" -> "\"POST\""
      [] str = "GET" -> "\"GET\""
Unquote(tok) ==
    CASE tok = "\"cb1\"" -> "cb1"
      [] tok = "\"cb2\"" -> "cb2"
      [] tok = "\"cb3\"" -> "cb3"
      [] tok = "\"POST\"" -> "POST"
      [] tok = "\"GET\"" -> "GET"
      [] tok = "\"callbacks\"" -> "callbacks"
      [] tok = "\"name\"" -> "name"
      [] tok = "\"method\"" -> "method"
      [] tok = "\"items\"" -> "items"
      [] tok = "\"a\"" -> "a"

\* what an execution can wait on: callbacks of different names, in order
PendingLists ==
    {q \in UNION {[1..n -> [name : CallbackNames, method : CallbackMethods]] :
                    n \in 0..MaxCallbacks} :
       \A i \in DOMAIN q : \A j \in DOMAIN q : i /= j => q[i].name /= q[j].name}

\* the body the service writes for a listing
CallbackText(cb) ==
    IF cb.method = ""
      THEN <<"{", "\"name\"", ":", Quote(cb.name), "}">>
      ELSE <<"{", "\"name\"", ":", Quote(cb.name), ",",
             "\"method\"", ":", Quote(cb.method), "}">>
RECURSIVE CallbackTexts(_)
CallbackTexts(list) ==
    IF list = <<>> THEN <<>>
    ELSE IF Len(list) = 1 THEN CallbackText(list[1])
    ELSE CallbackText(list[1]) \o <<",">> \o CallbackTexts(Tail(list))
EmptyListBody == <<"{", "\"callbacks\"", ":", "[", "]", "}">>
NoFieldBody == <<"{", "}">>
CallbacksBodies(list) ==
    {<<"{", "\"callbacks\"", ":", "[">> \o CallbackTexts(list) \o <<"]", "}">>}
    \cup (IF list = <<>>
            THEN {NoFieldBody, <<"{", "\"callbacks\"", ":", "null", "}">>}
            ELSE {})
\* bodies that are cut short or of the wrong shape
DamagedBodies ==
    {<<"{", "\"callbacks\"", ":", "[">>, <<"{", "\"callbacks\"", ":", "1", "}">>}

\* a string field of a JSON object read into a Go string field
StringField(m, k) ==
    IF k \notin DOMAIN m THEN [ok |-> TRUE, s |-> ""]
    ELSE IF m[k].t = "null" THEN [ok |-> TRUE, s |-> ""]
    ELSE IF m[k].t = "str" THEN [ok |-> TRUE, s |-> Unquote(m[k].s)]
    ELSE [ok |-> FALSE, s |-> ""]

\* one element of the callbacks array read into the anonymous struct
DecodeCallback(v) ==
    IF v.t = "null" THEN [ok |-> TRUE, Name |-> "", Method |-> ""]
    ELSE IF v.t /= "obj" THEN [ok |-> FALSE, Name |-> "", Method |-> ""]
    ELSE LET n == StringField(v.m, "\"name\"")
             m == StringField(v.m, "\"method\"")
         IN [ok |-> n.ok /\ m.ok, Name |-> n.s, Method |-> m.s]

\* json.Unmarshal(body, &parsed) with parsed a callbacksResponse
unmarshalCallbacks(body) ==
    LET r == ParseValue(body, 1)
        bad == [err |-> TRUE, list |-> <<>>]
        none == [err |-> FALSE, list |-> <<>>]
    IN IF ~r.ok \/ r.next /= Len(body) + 1 THEN bad
       ELSE IF r.v.t = "null" THEN none
       ELSE IF r.v.t /= "obj" THEN bad
       ELSE IF "\"callbacks\"" \notin DOMAIN r.v.m THEN none
       ELSE IF r.v.m["\"callbacks\""].t = "null" THEN none
       ELSE IF r.v.m["\"callbacks\""].t /= "arr" THEN bad
       ELSE LET e == r.v.m["\"callbacks\""].e
                d == [i \in DOMAIN e |-> DecodeCallback(e[i])]
            IN IF \E i \in DOMAIN e : ~d[i].ok THEN bad
               ELSE [err |-> FALSE,
                     list |-> [i \in DOMAIN e |->
                                 [Name |-> d[i].Name, Method |-> d[i].Method]]]

\* fmt.Sprintf("%s/%s", callbacksAPIBase, cb.Name)
CallbackURL(name) == <<callbacksAPIBase, "/", name>>

\* variant: the descriptors are collected in reverse
ListCallbacksResultReversed(parsed) ==
    [i \in DOMAIN parsed |->
       [Name |-> parsed[Len(parsed) + 1 - i].Name,
        Method |-> parsed[Len(parsed) + 1 - i].Method,
        URL |-> CallbackURL(parsed[Len(parsed) + 1 - i].Name)]]

\* the CallbackInfo slice built from the parsed listing
ListCallbacksResult(parsed) ==
    [i \in DOMAIN parsed |->
       [Name |-> parsed[i].Name, Method |-> parsed[i].Method,
        URL |-> CallbackURL(parsed[i].Name)]]

HttpRequest(verb, url, hasBody, body, ctype) ==
    [verb |-> verb, url |-> url, hasBody |-> hasBody, body |-> body, ctype |-> ctype]

\* GET <base>/<execution>/callbacks, without a body
ListCallbacksRequest(executionName) ==
    HttpRequest("GET", <<callbacksAPIBase, "/", executionName, "/callbacks">>,
                FALSE, <<>>, "")

\* resp.StatusCode != http.StatusOK
ListFailed(status) == status /= 200

\* variant: only 200 is a success
TriggerFailedNot200(status) == status /= 200

\* resp.StatusCode < 200 || resp.StatusCode >= 300
TriggerFailed(status) == status < 200 \/ status >= 300

\* variant: an empty map is sent without a body
TriggerRequestEmptyIsNil(callbackURL, method, m) ==
    HttpRequest(IF method = "" THEN "POST" ELSE method, callbackURL,
                m /= NilMap /\ m /= JObj(EmptyMembers),
                IF m /= NilMap /\ m /= JObj(EmptyMembers) THEN Ser(m) ELSE <<>>,
                IF m /= NilMap /\ m /= JObj(EmptyMembers) THEN "application/json"
                ELSE "")

\* the request TriggerCallback builds: json.Marshal(data) as the body and the
\* Content-Type header when data is not nil, POST when the method is empty
TriggerRequest(callbackURL, method, m) ==
    HttpRequest(IF method = "" THEN "POST" ELSE method, callbackURL,
                m /= NilMap,
                IF m /= NilMap THEN Ser(m) ELSE <<>>,
                IF m /= NilMap THEN "application/json" ELSE "")

\* the message of google.DefaultClient's error when no credentials are set up
CredentialsMsg == <<"google: ", "could not find default credentials">>

\* the message of httpClient.Do's error when the context is done
CtxHttpMsg(c) ==
    IF c = "deadline" THEN <<"context deadline exceeded">>
    ELSE <<"context canceled">>

\* messages of the failures of the HTTP transport
HttpTransportMsgs ==
    {<<"connection reset">>, <<"oauth2: cannot fetch token: ", "401">>}

\* bodies of the responses that report a failure
ErrorBodies == {<<"caller lacks permission">>, <<>>}

ListErrorStatuses == {401, 403, 404, 500}
TriggerSuccessStatuses == {200, 204, 299}
TriggerErrorStatuses == {300, 403, 404, 500}

HttpAnswer(kind, msg, status, body, listing, delivered) ==
    [kind |-> kind, msg |-> msg, status |-> status, body |-> body,
     listing |-> listing, delivered |-> delivered]

\* what httpClient.Do and io.ReadAll can give ListCallbacks now
ListCallbacksAnswers ==
    IF ctx /= "live"
      THEN {HttpAnswer("transport", CtxHttpMsg(ctx), 0, <<>>, <<>>, FALSE)}
    ELSE {HttpAnswer("transport", m, 0, <<>>, <<>>, FALSE) : m \in HttpTransportMsgs}
         \cup {HttpAnswer("bodyfail", <<"unexpected EOF">>, 200, <<>>, <<>>, FALSE)}
         \cup {HttpAnswer("response", <<>>, 200, b, pending, FALSE) :
                 b \in CallbacksBodies(pending) \cup DamagedBodies}
         \cup {HttpAnswer("response", <<>>, s, b, <<>>, FALSE) :
                 s \in ListErrorStatuses, b \in ErrorBodies}

\* what httpClient.Do can give TriggerCallback now: the service takes the
\* callback and answers with a success, or refuses and explains in the body
TriggerCallbackAnswers ==
    IF ctx /= "live"
      THEN {HttpAnswer("transport", CtxHttpMsg(ctx), 0, <<>>, <<>>, FALSE)}
    ELSE {HttpAnswer("transport", m, 0, <<>>, <<>>, FALSE) : m \in HttpTransportMsgs}
         \cup {HttpAnswer("response", <<>>, s, <<>>, <<>>, TRUE) :
                 s \in TriggerSuccessStatuses}
         \cup {HttpAnswer("response", <<>>, s, b, <<>>, FALSE) :
                 s \in TriggerErrorStatuses, b \in ErrorBodies}

(***************************************************************************)
(* The resume command: GetExecution, ListCallbacks, TriggerCallback and,   *)
(* with --wait, WaitForCompletion, under one context.                      *)
(***************************************************************************)
\* texts of the --data flag; the empty one is the flag not given
DataTexts ==
    {<<>>, <<"{", "}">>, <<"null">>, <<"{", "\"a\"", ":", "1", "}">>, <<"oops">>,
     <<"[", "]">>}

\* var parsedData map[string]interface{}; json.Unmarshal when data != ""
ParsedData(text) ==
    IF text = <<>> THEN [err |-> FALSE, m |-> NilMap] ELSE jsonUnmarshal(text)

\* variant: the last callback of the listing
PickCallbackLast(cbs) == cbs[Len(cbs)]

\* cb := callbacks[0]
PickCallback(cbs) == cbs[1]

\* variant: only a finished execution is refused
NotWaitingFinished(state) == state \in TerminalStates

\* result.State != "ACTIVE"
NotWaiting(state) == state /= "ACTIVE"

\* the executions a resume can find, and the callbacks they wait on
ResumeExecutions ==
    {AbsentExec}
    \cup UNION {ExecutionsIn(ExecName, s, {1}, {ItemsText}) : s \in RemoteStates}

InitResume ==
    /\ remote \in ResumeExecutions
    /\ pending \in IF remote.State = "ACTIVE" THEN PendingLists ELSE {<<>>}
    /\ data \in DataTexts
    /\ wait \in BOOLEAN
    /\ ctx = "live"
    /\ firedAt = "none"
    /\ pc = "idle"
    /\ op = "none"
    /\ pollInterval = InitialPollInterval
    /\ ret = NoRet
    /\ obs = <<>>
    /\ lastExec = AbsentExec
    /\ sleeps = <<>>
    /\ rpcLog = <<>>
    /\ calls = 0
    /\ prevErr = "none"
    /\ ListIdle
    /\ httpLog = <<>>
    /\ httpResp = NoResp
    /\ callbacks = <<>>
    /\ cmdErr = NoCmdErr
    /\ got = <<>>
    /\ ClsIdle
    /\ cmd = "resume"
    /\ project = "p1" /\ region = "r1" /\ outputFormat = "text"
    /\ async = FALSE /\ execClient = "nil" /\ workflowClient = "nil"
    /\ proc = "idle" /\ shown = <<>> /\ resourceType = "" /\ payload = NilMap
    /\ flags = NoFlags /\ env = NoEnv /\ cfg = NoConfig

\* the execution goes on once it waits on no callback
RemoteProceed ==
    /\ pending = <<>>
    /\ RemoteAdvance

\* GetExecution failed: the command returns its error
ResumeGetFailed ==
    /\ pc = "done" /\ op = "GetExecution"
    /\ ret.err /= NoErr
    /\ cmdErr' = CmdErr("Wrapped", "getting execution status", ret.err)
    /\ pc' = "exit"
    /\ UNCHANGED <<remote, ctx, firedAt, op, pollInterval, ret, obs, lastExec, sleeps,
                   rpcLog, calls, prevErr, listVars, clsVars, opsVars>>
    /\ UNCHANGED <<pending, data, wait, httpLog, httpResp, callbacks, got>>

\* the execution read is not ACTIVE: the command returns an error
ResumeNotActive ==
    /\ pc = "done" /\ op = "GetExecution"
    /\ ret.err = NoErr
    /\ NotWaiting(ret.rec[1].State)
    /\ got' = ret.rec[1]
    /\ cmdErr' = CmdErr("UnexpectedCallbackState",
                        "execution is not waiting on a callback", NoErr)
    /\ pc' = "exit"
    /\ UNCHANGED <<remote, ctx, firedAt, op, pollInterval, ret, obs, lastExec, sleeps,
                   rpcLog, calls, prevErr, listVars, clsVars, opsVars>>
    /\ UNCHANGED <<pending, data, wait, httpLog, httpResp, callbacks>>

\* the execution read is ACTIVE: ListCallbacks gets its HTTP client and sends
\* the request
ListCallbacks ==
    /\ pc = "done" /\ op = "GetExecution"
    /\ ret.err = NoErr
    /\ ~NotWaiting(ret.rec[1].State)
    /\ got' = ret.rec[1]
    /\ op' = "ListCallbacks"
    /\ calls' = calls + 1
    /\ httpResp' = NoResp
    /\ \/ /\ ret' = Ret(<<>>, <<>>,
                        wrapAuthError("creating HTTP client for callbacks",
                                      CredentialsMsg))
          /\ pc' = "done"
          /\ httpLog' = httpLog
       \/ /\ ret' = NoRet
          /\ pc' = "list_http"
          /\ httpLog' = Append(httpLog, ListCallbacksRequest(ret.rec[1].Name))
    /\ UNCHANGED <<remote, ctx, firedAt, pollInterval, obs, lastExec, sleeps, rpcLog,
                   prevErr, listVars, clsVars, opsVars>>
    /\ UNCHANGED <<pending, data, wait, callbacks, cmdErr>>

\* ListCallbacks: the response arrives, is read and parsed
ListCallbacksReturn ==
    /\ pc = "list_http"
    /\ \E a \in ListCallbacksAnswers :
         LET p == unmarshalCallbacks(a.body) IN
         /\ httpResp' = [status |-> a.status, body |-> a.body, listing |-> a.listing]
         /\ IF a.kind = "transport"
              THEN /\ ret' = Ret(<<>>, <<>>, wrapAuthError("listing callbacks", a.msg))
                   /\ callbacks' = <<>>
            ELSE IF a.kind = "bodyfail"
              THEN /\ ret' = Ret(<<>>, <<>>,
                                 Errorf("reading callbacks response", <<>>, <<a.msg>>))
                   /\ callbacks' = <<>>
            ELSE IF ListFailed(a.status)
              THEN /\ ret' = Ret(<<>>, <<>>,
                                 Errorf("listing callbacks",
                                        <<"HTTP ", ToString(a.status), ": ">> \o a.body,
                                        <<>>))
                   /\ callbacks' = <<>>
            ELSE IF p.err
              THEN /\ ret' = Ret(<<>>, <<>>,
                                 Errorf("parsing callbacks response", <<>>,
                                        <<<<"invalid JSON">>>>))
                   /\ callbacks' = <<>>
            ELSE /\ ret' = Ret(<<>>, <<>>, NoErr)
                 /\ callbacks' = ListCallbacksResult(p.list)
    /\ pc' = "done"
    /\ UNCHANGED <<remote, ctx, firedAt, op, pollInterval, obs, lastExec, sleeps,
                   rpcLog, calls, prevErr, listVars, clsVars, opsVars>>
    /\ UNCHANGED <<pending, data, wait, httpLog, cmdErr, got>>

\* ListCallbacks failed: the command returns its error
ResumeListFailed ==
    /\ pc = "done" /\ op = "ListCallbacks"
    /\ ret.err /= NoErr
    /\ cmdErr' = CmdErr("Wrapped", "listing callbacks", ret.err)
    /\ pc' = "exit"
    /\ UNCHANGED <<remote, ctx, firedAt, op, pollInterval, ret, obs, lastExec, sleeps,
                   rpcLog, calls, prevErr, listVars, clsVars, opsVars>>
    /\ UNCHANGED <<pending, data, wait, httpLog, httpResp, callbacks, got>>

\* len(callbacks) == 0: the command returns an error
ResumeNoCallbacks ==
    /\ pc = "done" /\ op = "ListCallbacks"
    /\ ret.err = NoErr
    /\ Len(callbacks) = 0
    /\ cmdErr' = CmdErr("NoCompatibleCallback",
                        "execution is ACTIVE but has no pending callbacks", NoErr)
    /\ pc' = "exit"
    /\ UNCHANGED <<remote, ctx, firedAt, op, pollInterval, ret, obs, lastExec, sleeps,
                   rpcLog, calls, prevErr, listVars, clsVars, opsVars>>
    /\ UNCHANGED <<pending, data, wait, httpLog, httpResp, callbacks, got>>

\* --data is no JSON object: the command returns an error
ResumeBadData ==
    /\ pc = "done" /\ op = "ListCallbacks"
    /\ ret.err = NoErr
    /\ Len(callbacks) /= 0
    /\ ParsedData(data).err
    /\ cmdErr' = CmdErr("InvalidInput", "parsing --data as JSON", NoErr)
    /\ pc' = "exit"
    /\ UNCHANGED <<remote, ctx, firedAt, op, pollInterval, ret, obs, lastExec, sleeps,
                   rpcLog, calls, prevErr, listVars, clsVars, opsVars>>
    /\ UNCHANGED <<pending, data, wait, httpLog, httpResp, callbacks, got>>

\* the first callback is triggered: TriggerCallback gets its HTTP client, builds
\* the request and sends it
TriggerCallback ==
    /\ pc = "done" /\ op = "ListCallbacks"
    /\ ret.err = NoErr
    /\ Len(callbacks) /= 0
    /\ ~ParsedData(data).err
    /\ op' = "TriggerCallback"
    /\ calls' = calls + 1
    /\ httpResp' = NoResp
    /\ LET cb == PickCallback(callbacks) IN
       \/ /\ ret' = Ret(<<>>, <<>>,
                        wrapAuthError("creating HTTP client for callback trigger",
                                      CredentialsMsg))
          /\ pc' = "done"
          /\ httpLog' = httpLog
       \/ /\ ret' = NoRet
          /\ pc' = "trigger_http"
          /\ httpLog' = Append(httpLog,
                               TriggerRequest(cb.URL, cb.Method, ParsedData(data).m))
    /\ UNCHANGED <<remote, ctx, firedAt, pollInterval, obs, lastExec, sleeps, rpcLog,
                   prevErr, listVars, clsVars, opsVars>>
    /\ UNCHANGED <<pending, data, wait, callbacks, cmdErr, got>>

\* TriggerCallback: the response arrives; a callback the service took is no
\* longer pending
TriggerCallbackReturn ==
    /\ pc = "trigger_http"
    /\ \E a \in TriggerCallbackAnswers :
         /\ httpResp' = [status |-> a.status, body |-> a.body, listing |-> a.listing]
         /\ pending' = IF a.delivered
                         THEN SelectSeq(pending,
                                LAMBDA c : CallbackURL(c.name) /= httpLog[Len(httpLog)].url)
                         ELSE pending
         /\ ret' = IF a.kind = "transport"
                     THEN Ret(<<>>, <<>>, wrapAuthError("triggering callback", a.msg))
                   ELSE IF TriggerFailed(a.status)
                     THEN Ret(<<>>, <<>>,
                              Errorf("triggering callback",
                                     <<"HTTP ", ToString(a.status), ": ">> \o a.body,
                                     <<>>))
                   ELSE Ret(<<>>, <<>>, NoErr)
    /\ pc' = "done"
    /\ UNCHANGED <<remote, ctx, firedAt, op, pollInterval, obs, lastExec, sleeps,
                   rpcLog, calls, prevErr, listVars, clsVars, opsVars>>
    /\ UNCHANGED <<data, wait, httpLog, callbacks, cmdErr, got>>

\* TriggerCallback failed: the command returns its error
ResumeTriggerFailed ==
    /\ pc = "done" /\ op = "TriggerCallback"
    /\ ret.err /= NoErr
    /\ cmdErr' = CmdErr("Wrapped", "triggering callback", ret.err)
    /\ pc' = "exit"
    /\ UNCHANGED <<remote, ctx, firedAt, op, pollInterval, ret, obs, lastExec, sleeps,
                   rpcLog, calls, prevErr, listVars, clsVars, opsVars>>
    /\ UNCHANGED <<pending, data, wait, httpLog, httpResp, callbacks, got>>

\* the callback is triggered and --wait is not set: the command returns nil
ResumeDone ==
    /\ pc = "done" /\ op = "TriggerCallback"
    /\ ret.err = NoErr
    /\ ~wait
    /\ pc' = "exit"
    /\ UNCHANGED <<remote, ctx, firedAt, op, pollInterval, ret, obs, lastExec, sleeps,
                   rpcLog, calls, prevErr, listVars, clsVars, opsVars>>
    /\ UNCHANGED cmdVars

\* variant: the command waits whatever the trigger returned
ResumeWaitAlways ==
    /\ pc = "done" /\ op = "TriggerCallback"
    /\ wait
    /\ op' = "WaitForCompletion"
    /\ pc' = "poll"
    /\ pollInterval' = InitialPollInterval
    /\ calls' = calls + 1
    /\ ret' = NoRet
    /\ obs' = <<>>
    /\ sleeps' = <<>>
    /\ rpcLog' = <<>>
    /\ lastExec' = AbsentExec
    /\ UNCHANGED <<remote, ctx, firedAt, prevErr, listVars, clsVars, opsVars>>
    /\ UNCHANGED cmdVars

\* the callback is triggered and --wait is set: WaitForCompletion is entered
ResumeWait ==
    /\ pc = "done" /\ op = "TriggerCallback"
    /\ ret.err = NoErr
    /\ wait
    /\ op' = "WaitForCompletion"
    /\ pc' = "poll"
    /\ pollInterval' = InitialPollInterval
    /\ calls' = calls + 1
    /\ ret' = NoRet
    /\ obs' = <<>>
    /\ sleeps' = <<>>
    /\ rpcLog' = <<>>
    /\ lastExec' = AbsentExec
    /\ UNCHANGED <<remote, ctx, firedAt, prevErr, listVars, clsVars, opsVars>>
    /\ UNCHANGED cmdVars

\* WaitForCompletion returned: the command prints the record or returns the error
ResumeWaitReturn ==
    /\ pc = "done" /\ op = "WaitForCompletion"
    /\ cmdErr' = IF ret.err /= NoErr
                   THEN CmdErr("Wrapped", "waiting for execution", ret.err)
                   ELSE NoCmdErr
    /\ pc' = "exit"
    /\ UNCHANGED <<remote, ctx, firedAt, op, pollInterval, ret, obs, lastExec, sleeps,
                   rpcLog, calls, prevErr, listVars, clsVars, opsVars>>
    /\ UNCHANGED <<pending, data, wait, httpLog, httpResp, callbacks, got>>

NextResume ==
    \/ RemoteProceed
    \/ CtxDone
    \/ GetExecution
    \/ GetExecutionReturn
    \/ ResumeGetFailed
    \/ ResumeNotActive
    \/ ListCallbacks
    \/ ListCallbacksReturn
    \/ ResumeListFailed
    \/ ResumeNoCallbacks
    \/ ResumeBadData
    \/ TriggerCallback
    \/ TriggerCallbackReturn
    \/ ResumeTriggerFailed
    \/ ResumeDone
    \/ ResumeWait
    \/ WaitPoll
    \/ WaitAnswer
    \/ WaitCtxDone
    \/ WaitTimer
    \/ ResumeWaitReturn

SpecResume == InitResume /\ [][NextResume]_vars

(***************************************************************************)
(* Properties of the callback operations and of the resume command.        *)
(***************************************************************************)
\* the requests sent after the listing's, which is the first
TriggerRequests == SubSeq(httpLog, 2, Len(httpLog))

\* a client operation of the resume command has returned
OpReturned(o) == op = o /\ pc \in {"done", "exit"}

ClassifierKinds == AuthKinds \cup {"Unclassified"}

\* C13: every error GetExecution, WaitForCompletion, ListCallbacks or
\* TriggerCallback returns is a value of the classifier, also when the callback
\* transport answered with a status such as 401, 403 or 404.
C13_EveryErrorIsClassified ==
    (pc \in {"done", "exit"} /\ ret.err /= NoErr) => ret.err.kind \in ClassifierKinds

\* C15: when the listing is answered with 200, ListCallbacks returns no error
\* and no callback for the body {"callbacks": []} and for the body {}, and for
\* a body that lists callbacks it returns one descriptor for each, in the order
\* of the body, with the method listed and the URL <base>/<name>.
C15_ListCallbacksResult ==
    (OpReturned("ListCallbacks") /\ httpResp.status = 200
       /\ httpResp.body \in CallbacksBodies(httpResp.listing))
      => /\ ret.err = NoErr
         /\ httpResp.body \in {EmptyListBody, NoFieldBody} => Len(callbacks) = 0
         /\ Len(callbacks) = Len(httpResp.listing)
         /\ \A i \in 1..Len(callbacks) :
              /\ callbacks[i].Name = httpResp.listing[i].name
              /\ callbacks[i].Method = httpResp.listing[i].method
              /\ callbacks[i].URL = <<callbacksAPIBase, "/", httpResp.listing[i].name>>

\* two callbacks were listed, cb2 first, and returned in that order
C15_Witness ==
    /\ OpReturned("ListCallbacks")
    /\ ret.err = NoErr
    /\ Len(callbacks) = 2
    /\ httpResp.listing[1].name = "cb2"
    /\ callbacks[1].Name = "cb2"
    /\ callbacks[2].Method = "GET"

\* C16: TriggerCallback sends one request and no second one; having got a
\* response it returns nil for a status from 200 to 299 and for any other status
\* an error whose text holds the body of the response as it came.
C16_OneRequestStatusDecides ==
    /\ Len(TriggerRequests) <= 1
    /\ (OpReturned("TriggerCallback") /\ httpResp.status /= 0)
         => /\ Len(TriggerRequests) = 1
            /\ httpResp.status \in 200..299 => ret.err = NoErr
            /\ httpResp.status \notin 200..299
                 => /\ ret.err /= NoErr
                    /\ OccursIn(httpResp.body, ErrorText(ret.err))
                    /\ Len(ErrorText(ret.err)) > Len(httpResp.body)

\* the service answered 403 with a body and the error carries it
C16_Witness ==
    /\ OpReturned("TriggerCallback")
    /\ httpResp.status = 403
    /\ httpResp.body = <<"caller lacks permission">>
    /\ ret.err /= NoErr
    /\ Len(TriggerRequests) = 1

\* the method the request of the first callback must carry
MethodOrPost == IF callbacks[1].Method = "" THEN "POST" ELSE callbacks[1].Method

\* C17 as stated: the request carries the given method, or POST for an empty
\* one, and has a JSON body exactly when the payload is not empty: without
\* --data and with --data {} alike the request has no body.
C17_BodyIffNonEmpty ==
    \A i \in DOMAIN TriggerRequests :
       /\ TriggerRequests[i].verb = MethodOrPost
       /\ TriggerRequests[i].hasBody <=> data \notin {<<>>, <<"null">>, <<"{", "}">>}
       /\ TriggerRequests[i].hasBody <=> TriggerRequests[i].ctype = "application/json"

\* C17: the request carries the given method, or POST for an empty one, and has
\* a JSON body with the JSON content type exactly when the payload map is not
\* nil: without --data and with --data null the request has no body and no
\* content type, with --data {} it has the body {}, and with an object the
\* object written as JSON.
C17_BodyIffNotNil ==
    \A i \in DOMAIN TriggerRequests :
       /\ TriggerRequests[i].verb = MethodOrPost
       /\ TriggerRequests[i].hasBody <=> data \notin {<<>>, <<"null">>}
       /\ TriggerRequests[i].hasBody <=> TriggerRequests[i].ctype = "application/json"
       /\ ~TriggerRequests[i].hasBody => TriggerRequests[i].body = <<>>
       /\ TriggerRequests[i].hasBody => TriggerRequests[i].body = data

\* a callback listed without a method was triggered with --data {}
C17_Witness ==
    /\ Len(TriggerRequests) = 1
    /\ data = <<"{", "}">>
    /\ callbacks[1].Method = ""
    /\ TriggerRequests[1].verb = "POST"
    /\ TriggerRequests[1].hasBody
    /\ TriggerRequests[1].body = <<"{", "}">>

\* C18: a trigger is sent only after the command's GetExecution read ACTIVE and
\* its ListCallbacks returned a callback; when the read is not ACTIVE the
\* command ends with UnexpectedCallbackState and has sent no HTTP request, and
\* when it is ACTIVE with no callback listed the command ends with
\* NoCompatibleCallback and has sent the listing only.
C18_TriggerOnlyWhenActiveWithCallback ==
    /\ Len(TriggerRequests) > 0
         => got /= <<>> /\ got.State = "ACTIVE" /\ Len(callbacks) >= 1
    /\ (got /= <<>> /\ got.State /= "ACTIVE")
         => /\ pc = "exit"
            /\ cmdErr.kind = "UnexpectedCallbackState"
            /\ httpLog = <<>>
    /\ (pc = "exit" /\ op = "ListCallbacks" /\ ret.err = NoErr /\ Len(callbacks) = 0)
         => /\ got.State = "ACTIVE"
            /\ cmdErr.kind = "NoCompatibleCallback"
            /\ Len(httpLog) = 1
    /\ (pc = "exit" /\ op = "GetExecution" /\ ret.err = NoErr)
         => got /= <<>> /\ got.State /= "ACTIVE"

\* an ACTIVE execution without callbacks: the command ended after the listing
C18_Witness ==
    /\ pc = "exit"
    /\ got /= <<>>
    /\ got.State = "ACTIVE"
    /\ httpResp.body = EmptyListBody
    /\ cmdErr.kind = "NoCompatibleCallback"
    /\ Len(httpLog) = 1

\* C19: a resume sends at most one trigger; it goes to the URL <base>/<name> of
\* the first callback ListCallbacks returned, with that callback's method (POST
\* when it has none), and every other callback listed stays pending.
C19_FirstCallbackOnly ==
    /\ Len(TriggerRequests) <= 1
    /\ \A i \in DOMAIN TriggerRequests :
         /\ TriggerRequests[i].url = <<callbacksAPIBase, "/", callbacks[1].Name>>
         /\ TriggerRequests[i].url = callbacks[1].URL
         /\ TriggerRequests[i].verb = MethodOrPost
         /\ \A j \in 2..Len(callbacks) :
              /\ TriggerRequests[i].url /= callbacks[j].URL
              /\ \E k \in DOMAIN pending : pending[k].name = callbacks[j].Name

\* of two callbacks the first was taken by the service and the second is pending
C19_Witness ==
    /\ OpReturned("TriggerCallback")
    /\ ret.err = NoErr
    /\ Len(callbacks) = 2
    /\ Len(pending) = 1
    /\ pending[1].name = callbacks[2].Name
    /\ callbacks[1].Method = "GET"
    /\ TriggerRequests[1].verb = "GET"

\* C20: with --wait, WaitForCompletion is entered only after TriggerCallback
\* returned nil for its one request, never after a failed trigger and never
\* without --wait; the record it returns is in the terminal state the execution
\* went to after the callback, so SUCCEEDED when the execution succeeded.
C20_WaitAfterTrigger ==
    /\ op = "WaitForCompletion"
         => /\ wait
            /\ Len(TriggerRequests) = 1
            /\ httpResp.status \in 200..299
    /\ (pc = "exit" /\ op = "TriggerCallback") => (ret.err /= NoErr \/ ~wait)
    /\ (OpReturned("WaitForCompletion") /\ ret.err = NoErr)
         => /\ ret.rec[1].State \in TerminalStates
            /\ ret.rec[1].State = remote.State
            /\ remote.State = "SUCCEEDED" => ret.rec[1].State = "SUCCEEDED"

\* one callback was pending, it was delivered with 200, the execution went on to
\* SUCCEEDED and the wait returned that record
C20_Witness ==
    /\ pc = "exit"
    /\ op = "WaitForCompletion"
    /\ cmdErr = NoCmdErr
    /\ Len(callbacks) = 1
    /\ callbacks[1].Method = "POST"
    /\ data = <<"{", "\"a\"", ":", "1", "}">>
    /\ httpResp.status = 200
    /\ pending = <<>>
    /\ ret.rec[1].State = "SUCCEEDED"

(***************************************************************************)
(* Properties of the listing, of the two readers and of the tracker.       *)
(***************************************************************************)
Min(a, b) == IF a <= b THEN a ELSE b

\* C22: for every limit and every number of executions the service holds,
\* ListExecutions returns at most limit records, namely the first
\* min(limit, available) of them in the order of the service; a listing that
\* fails in the middle returns the error and no list.
C22_FirstLimitInOrder ==
    lpc = "done" =>
      IF lret.err /= NoErr
        THEN lret.list = <<>>
        ELSE /\ Len(lret.list) <= limit
             /\ Len(lret.list) = Min(limit, Len(execs))
             /\ \A i \in 1..Len(lret.list) :
                  lret.list[i] = NewExecutionInfo(execs[i])

\* C28: GetExecution and WaitForCompletion are equivalent on terminal
\* observations: from the same snapshot of an execution in a terminal state both
\* build the same record (name, state, start time, end time, duration, result
\* payload, failure context), and that record is what either of them returns.
C28_ReadersAgreeOnTerminal ==
    /\ lastExec.State \in TerminalStates =>
         GetExecutionResult(lastExec) = WaitResult(lastExec)
    /\ (pc = "done" /\ ret.rec /= <<>> /\ lastExec.State \in TerminalStates) =>
         /\ ret.rec[1] = GetExecutionResult(lastExec)
         /\ ret.rec[1] = WaitResult(lastExec)

\* the second read of a frozen failed execution, by WaitForCompletion, returned
\* a record with end time, duration and failure context
C28_Witness ==
    /\ pc = "done"
    /\ op = "WaitForCompletion"
    /\ calls = 2
    /\ prevErr = "nil"
    /\ lastExec.State = "FAILED"
    /\ ret.rec /= <<>>
    /\ ret.rec[1].Error /= ""
    /\ ret.rec[1].EndTime /= ZeroTime
    /\ ret.rec[1].Duration = Sub(lastExec.EndTime, lastExec.StartTime)

(***************************************************************************)
(* The tracker under fair scheduling: the goroutine of the wait keeps      *)
(* running, so a request that can be sent is sent, an answer that can      *)
(* arrive arrives, and the select returns through the case that is ready.  *)
(***************************************************************************)
NextTracker ==
    \/ RemoteAdvance
    \/ CtxDone
    \/ WaitForCompletion
    \/ WaitPoll
    \/ WaitAnswer
    \/ WaitCtxDone
    \/ WaitTimer
    \/ Run
    \/ RunExecuteReturn

TrackerFairness ==
    /\ WF_vars(WaitPoll)
    /\ WF_vars(WaitAnswer)
    /\ WF_vars(WaitCtxDone)
    /\ WF_vars(WaitTimer)

SpecTracker == Init /\ [][NextTracker]_vars /\ TrackerFairness

\* the wait is under way, the execution has reached a terminal state, and the
\* wait can still send a request within the bound of the model
TerminalWhileWaiting ==
    /\ Waiting
    /\ pc \in {"poll", "wait_rpc", "select"}
    /\ remote.State \in TerminalStates
    /\ (pc = "wait_rpc" \/ Len(obs) < MaxPolls)

\* the wait has returned the record of the terminal state, unless a GetExecution
\* request failed or the context was done
ReturnedTerminalRecord ==
    /\ pc = "done"
    /\ \/ \E i \in DOMAIN obs : obs[i] = "ERR"
       \/ ctx /= "live"
       \/ /\ ret.err = NoErr
          /\ Len(ret.rec) = 1
          /\ ret.rec[1].State = remote.State
          /\ ret.rec[1].State \in TerminalStates

\* C27: once the execution has reached a terminal state (where it stays), a wait
\* none of whose GetExecution requests fails and whose context is not done
\* eventually returns a record carrying that state, after finitely many polls.
C27_WaitEventuallyReturns == TerminalWhileWaiting ~> ReturnedTerminalRecord

\* a wait that saw the execution running twice and then returned the record of
\* the cancelled execution
C27_Witness ==
    /\ pc = "done"
    /\ op = "WaitForCompletion"
    /\ ctx = "live"
    /\ Len(obs) = 3
    /\ obs[1] = "QUEUED"
    /\ obs[2] = "ACTIVE"
    /\ obs[3] = "CANCELLED"
    /\ remote.State = "CANCELLED"
    /\ ret.err = NoErr
    /\ ret.rec[1].State = "CANCELLED"

(***************************************************************************)
(* The transport clients of a Client, and the commands that construct one. *)
(***************************************************************************)
\* how NewClient can end: both clients made, executions.NewClient failed,
\* wfapi.NewClient failed
NewClientOutcomes == {"ok", "exec_failed", "wf_failed"}

\* NewClient: the second failure closes the first client before it returns
NewClient(outcome) ==
    IF outcome = "exec_failed"
      THEN [execClient |-> "nil", workflowClient |-> "nil",
            err |-> wrapAuthError("creating workflows client", CredentialsMsg)]
    ELSE IF outcome = "wf_failed"
      THEN [execClient |-> "closed", workflowClient |-> "nil",
            err |-> wrapAuthError("creating workflows client", CredentialsMsg)]
    ELSE [execClient |-> "open", workflowClient |-> "open", err |-> NoErr]

\* Client.Close: both clients are closed, the errors are collected; failed is
\* the set of clients whose Close returns an error
Close(failed) ==
    [execClient |-> "closed", workflowClient |-> "closed",
     err |-> IF failed /= {} THEN "closing clients" ELSE ""]

ClientNames == {"execClient", "workflowClient"}

\* defer client.Close() runs: the command returns
DeferredClose ==
    \E failed \in SUBSET ClientNames :
      /\ execClient' = Close(failed).execClient
      /\ workflowClient' = Close(failed).workflowClient

\* the values of --project and --region as the command reads them
ProjectValues == {"", "p1"}
RegionValues == {"", "r1"}

\* wf run: var parsedData; json.Unmarshal when data != "", else an empty map
RunParsedData(text) ==
    IF text = <<>> THEN [err |-> FALSE, m |-> JObj(EmptyMembers)]
    ELSE jsonUnmarshal(text)

\* variant: only --project is checked
MissingFlagProjectOnly(p, r) ==
    IF p = "" THEN "--project is required (or set GCPHCP_PROJECT)" ELSE ""

\* the checks every command makes before it creates its client
MissingFlag(p, r) ==
    IF p = "" THEN "--project is required (or set GCPHCP_PROJECT)"
    ELSE IF r = "" THEN "--region is required (or set GCPHCP_REGION)"
    ELSE ""

InitRunCmd ==
    /\ remote = AbsentExec
    /\ ctx = "live"
    /\ firedAt = "none"
    /\ pc = "idle"
    /\ op = "none"
    /\ pollInterval = InitialPollInterval
    /\ ret = NoRet
    /\ obs = <<>>
    /\ lastExec = AbsentExec
    /\ sleeps = <<>>
    /\ rpcLog = <<>>
    /\ calls = 0
    /\ prevErr = "none"
    /\ ListIdle
    /\ pending = <<>> /\ wait = FALSE /\ httpLog = <<>> /\ httpResp = NoResp
    /\ callbacks = <<>> /\ cmdErr = NoCmdErr /\ got = <<>>
    /\ data \in DataTexts
    /\ ClsIdle
    /\ cmd = "run"
    /\ project \in ProjectValues
    /\ region \in RegionValues
    /\ async \in BOOLEAN
    /\ outputFormat = "text"
    /\ execClient = "nil" /\ workflowClient = "nil"
    /\ proc = "idle" /\ shown = <<>> /\ resourceType = "" /\ payload = NilMap
    /\ flags = NoFlags /\ env = NoEnv /\ cfg = NoConfig

\* wf run, RunE up to the CreateExecution request: the flags are checked, --data
\* is parsed, the client is created, Execute sends the request
RunCmd ==
    /\ cmd = "run" /\ proc = "idle"
    /\ IF MissingFlag(project, region) /= ""
         THEN /\ cmdErr' = CmdErr("InvalidInput", MissingFlag(project, region), NoErr)
              /\ proc' = "returned"
              /\ UNCHANGED <<execClient, workflowClient, payload, pc, op, rpcLog, calls>>
       ELSE IF RunParsedData(data).err
         THEN /\ cmdErr' = CmdErr("InvalidInput", "invalid --data JSON", NoErr)
              /\ proc' = "returned"
              /\ UNCHANGED <<execClient, workflowClient, payload, pc, op, rpcLog, calls>>
       ELSE \E o \in NewClientOutcomes :
              /\ execClient' = NewClient(o).execClient
              /\ workflowClient' = NewClient(o).workflowClient
              /\ IF NewClient(o).err /= NoErr
                   THEN /\ cmdErr' = CmdErr("Wrapped", "creating client", NewClient(o).err)
                        /\ proc' = "returned"
                        /\ UNCHANGED <<payload, pc, op, rpcLog, calls>>
                   ELSE /\ cmdErr' = cmdErr
                        /\ proc' = "running"
                        /\ payload' = RunParsedData(data).m
                        /\ op' = "Execute"
                        /\ pc' = "create_rpc"
                        /\ rpcLog' = <<"CreateExecution">>
                        /\ calls' = calls + 1
    /\ UNCHANGED <<remote, ctx, firedAt, pollInterval, ret, obs, lastExec, sleeps,
                   prevErr, listVars, clsVars>>
    /\ UNCHANGED <<pending, data, wait, httpLog, httpResp, callbacks, got>>
    /\ UNCHANGED <<cmd, project, region, outputFormat, async, shown, resourceType,
                   flags, env, cfg>>

\* variant: --async is ignored, the command always waits
RunCmdExecuteReturnAlwaysWaits ==
    /\ cmd = "run" /\ pc = "create_rpc"
    /\ \E a \in CreateExecutionAnswers :
         IF ~a.ok
           THEN /\ ret' = Ret(<<>>, <<>>, wrapAuthError("executing workflow", a.msg))
                /\ cmdErr' = CmdErr("Wrapped", "executing workflow", ret'.err)
                /\ DeferredClose
                /\ proc' = "returned"
                /\ pc' = "exit"
                /\ UNCHANGED <<remote, op, pollInterval, calls>>
         ELSE /\ remote' = a.exec
              /\ ret' = Ret(a.exec.Name, <<>>, NoErr)
              /\ op' = "WaitForCompletion"
              /\ pc' = "poll"
              /\ pollInterval' = InitialPollInterval
              /\ calls' = calls + 1
              /\ UNCHANGED <<cmdErr, execClient, workflowClient, proc>>
    /\ UNCHANGED <<ctx, firedAt, obs, lastExec, sleeps, rpcLog, prevErr, listVars,
                   clsVars>>
    /\ UNCHANGED <<pending, data, wait, httpLog, httpResp, callbacks, got>>
    /\ UNCHANGED <<cmd, project, region, outputFormat, async, shown, resourceType,
                   payload, flags, env, cfg>>

\* wf run: Execute returns.  An error returns from the command, --async returns
\* nil, otherwise WaitForCompletion is entered.
RunCmdExecuteReturn ==
    /\ cmd = "run" /\ pc = "create_rpc"
    /\ \E a \in CreateExecutionAnswers :
         IF ~a.ok
           THEN /\ ret' = Ret(<<>>, <<>>, wrapAuthError("executing workflow", a.msg))
                /\ cmdErr' = CmdErr("Wrapped", "executing workflow", ret'.err)
                /\ DeferredClose
                /\ proc' = "returned"
                /\ pc' = "exit"
                /\ UNCHANGED <<remote, op, pollInterval, calls>>
         ELSE IF async
           THEN /\ remote' = a.exec
                /\ ret' = Ret(a.exec.Name, <<>>, NoErr)
                /\ cmdErr' = NoCmdErr
                /\ DeferredClose
                /\ proc' = "returned"
                /\ pc' = "exit"
                /\ UNCHANGED <<op, pollInterval, calls>>
         ELSE /\ remote' = a.exec
              /\ ret' = Ret(a.exec.Name, <<>>, NoErr)
              /\ op' = "WaitForCompletion"
              /\ pc' = "poll"
              /\ pollInterval' = InitialPollInterval
              /\ calls' = calls + 1
              /\ UNCHANGED <<cmdErr, execClient, workflowClient, proc>>
    /\ UNCHANGED <<ctx, firedAt, obs, lastExec, sleeps, rpcLog, prevErr, listVars,
                   clsVars>>
    /\ UNCHANGED <<pending, data, wait, httpLog, httpResp, callbacks, got>>
    /\ UNCHANGED <<cmd, project, region, outputFormat, async, shown, resourceType,
                   payload, flags, env, cfg>>

\* wf run: WaitForCompletion returned.  An error returns from the command; a
\* FAILED execution ends the process with os.Exit(1), which runs no deferred
\* call; any other record is printed.
RunCmdWaitReturn ==
    /\ cmd = "run" /\ pc = "done" /\ op = "WaitForCompletion"
    /\ IF ret.err /= NoErr
         THEN /\ cmdErr' = CmdErr("Wrapped", "waiting for workflow", ret.err)
              /\ DeferredClose
              /\ proc' = "returned"
              /\ shown' = shown
       ELSE IF ret.rec[1].State = "FAILED"
         THEN /\ proc' = "exited"
              /\ UNCHANGED <<cmdErr, execClient, workflowClient, shown>>
       ELSE /\ cmdErr' = NoCmdErr
            /\ shown' = <<ret.rec[1].Result>>
            /\ DeferredClose
            /\ proc' = "returned"
    /\ pc' = "exit"
    /\ UNCHANGED <<remote, ctx, firedAt, op, pollInterval, ret, obs, lastExec, sleeps,
                   rpcLog, calls, prevErr, listVars, clsVars>>
    /\ UNCHANGED <<pending, data, wait, httpLog, httpResp, callbacks, got>>
    /\ UNCHANGED <<cmd, project, region, outputFormat, async, resourceType, payload,
                   flags, env, cfg>>

NextRunCmd ==
    \/ RunCmd
    \/ RunCmdExecuteReturn
    \/ RemoteAdvance
    \/ CtxDone
    \/ WaitPoll
    \/ WaitAnswer
    \/ WaitCtxDone
    \/ WaitTimer
    \/ RunCmdWaitReturn

SpecRunCmd == InitRunCmd /\ [][NextRunCmd]_vars

\* the process has ended: RunE returned, or os.Exit was called
Ended == proc \in {"returned", "exited"}

\* C21: the transport clients NewClient acquired are released on every exit path
\* of the command that constructed them (success, error return, timeout, a
\* workflow that ended FAILED); a NewClient that fails after acquiring the first
\* client has released it; Close releases both clients.
C21_ClientsReleased ==
    Ended => execClient /= "open" /\ workflowClient /= "open"

\* the execution exists: the CreateExecution request of this command made it
Created == remote.State /= "ABSENT"

\* C25: wf run --async returns right after the execution is created: it sends
\* exactly one CreateExecution, never a GetExecution, never enters
\* WaitForCompletion, and reports success without having observed a state;
\* without --async the command creates the execution and then waits for a
\* terminal state.
C25_AsyncReturnsAfterCreate ==
    /\ (cmd = "run" /\ async) =>
         /\ Len(rpcLog) <= 1
         /\ \A i \in DOMAIN rpcLog : rpcLog[i] = "CreateExecution"
         /\ op /= "WaitForCompletion"
         /\ obs = <<>> /\ sleeps = <<>> /\ ret.rec = <<>> /\ shown = <<>>
         /\ Created =>
              /\ proc = "returned"
              /\ cmdErr = NoCmdErr
              /\ rpcLog = <<"CreateExecution">>
    /\ (cmd = "run" /\ ~async /\ Created) =>
         /\ op = "WaitForCompletion"
         /\ rpcLog[1] = "CreateExecution"
         /\ \A i \in 2..Len(rpcLog) : rpcLog[i] = "GetExecution"
         /\ Ended =>
              /\ Len(rpcLog) >= 2
              /\ cmdErr = NoCmdErr =>
                   /\ obs[Len(obs)] \in TerminalStates
                   /\ ret.rec[1].State = obs[Len(obs)]

\* an --async run that returned success while the execution it created runs
C25_Witness ==
    /\ cmd = "run" /\ async
    /\ proc = "returned"
    /\ cmdErr = NoCmdErr
    /\ rpcLog = <<"CreateExecution">>
    /\ remote.State \in {"QUEUED", "ACTIVE"}
    /\ ret.name = ExecName
    /\ execClient = "closed" /\ workflowClient = "closed"

(***************************************************************************)
(* The commands that take --data: wf run and wf resume.                    *)
(***************************************************************************)
InitCommands == InitRunCmd \/ InitResume

NextCommands ==
    \/ cmd = "run" /\ NextRunCmd
    \/ cmd = "resume" /\ NextResume

SpecCommands == InitCommands /\ [][NextCommands]_vars

\* C26: input validation precedes every external effect: wf run sends no
\* CreateExecution and creates no client when --project or --region is empty or
\* --data is not valid JSON, and wf resume sends no callback trigger when its
\* --data is not valid JSON.
C26_ValidationPrecedesEffects ==
    /\ (cmd = "run" /\ (project = "" \/ region = "" \/ RunParsedData(data).err)) =>
         /\ rpcLog = <<>>
         /\ remote.State = "ABSENT"
         /\ execClient = "nil" /\ workflowClient = "nil"
         /\ pc \in {"idle"}
    /\ (cmd = "resume" /\ ParsedData(data).err) =>
         /\ TriggerRequests = <<>>
         /\ op /= "TriggerCallback"

\* a run with both flags set whose --data is a JSON array has returned the
\* input error without client and without request
C26_Witness ==
    /\ cmd = "run"
    /\ project /= "" /\ region /= ""
    /\ data = <<"[", "]">>
    /\ proc = "returned"
    /\ cmdErr = CmdErr("InvalidInput", "invalid --data JSON", NoErr)
    /\ rpcLog = <<>>
    /\ execClient = "nil"

(***************************************************************************)
(* The status command.                                                     *)
(***************************************************************************)
\* output.ParseFormat
ParseFormat(s) ==
    IF s = "json" THEN "json" ELSE IF s = "yaml" THEN "yaml" ELSE "text"

\* variant: every ACTIVE execution is shown as waiting on a callback
printStatusActiveWaits(rec, cbs, format) ==
    IF ParseFormat(format) = "json"
      THEN [format |-> "json", state |-> rec.State, callbacks |-> cbs]
      ELSE [format |-> "text",
            state |-> IF rec.State = "ACTIVE"
                        THEN "ACTIVE (waiting on callback)" ELSE rec.State,
            callbacks |-> cbs]

\* printStatus: what is written for the record whose Callbacks field is cbs; the
\* JSON object has the key "callbacks", and the text its Callbacks block, only
\* for a non-empty list
printStatus(rec, cbs, format) ==
    IF ParseFormat(format) = "json"
      THEN [format |-> "json", state |-> rec.State, callbacks |-> cbs]
      ELSE [format |-> "text",
            state |-> IF rec.State = "ACTIVE" /\ Len(cbs) > 0
                        THEN "ACTIVE (waiting on callback)" ELSE rec.State,
            callbacks |-> cbs]

OutputFormats == {"text", "json"}

InitStatus ==
    /\ remote \in ResumeExecutions
    /\ pending \in IF remote.State = "ACTIVE" THEN PendingLists ELSE {<<>>}
    /\ data = <<>>
    /\ wait \in BOOLEAN
    /\ ctx = "live"
    /\ firedAt = "none"
    /\ pc = "idle"
    /\ op = "none"
    /\ pollInterval = InitialPollInterval
    /\ ret = NoRet
    /\ obs = <<>>
    /\ lastExec = AbsentExec
    /\ sleeps = <<>>
    /\ rpcLog = <<>>
    /\ calls = 0
    /\ prevErr = "none"
    /\ ListIdle
    /\ httpLog = <<>>
    /\ httpResp = NoResp
    /\ callbacks = <<>>
    /\ cmdErr = NoCmdErr
    /\ got = <<>>
    /\ ClsIdle
    /\ cmd = "status"
    /\ project \in ProjectValues
    /\ region \in RegionValues
    /\ outputFormat \in OutputFormats
    /\ async = FALSE /\ execClient = "nil" /\ workflowClient = "nil"
    /\ proc = "idle" /\ shown = <<>> /\ resourceType = "" /\ payload = NilMap
    /\ flags = NoFlags /\ env = NoEnv /\ cfg = NoConfig

\* wf status, RunE up to its first request: the flags are checked, the client is
\* created, and WaitForCompletion is entered (--wait) or GetExecution sends its
\* request
StatusCmd ==
    /\ cmd = "status" /\ proc = "idle"
    /\ IF MissingFlag(project, region) /= ""
         THEN /\ cmdErr' = CmdErr("InvalidInput", MissingFlag(project, region), NoErr)
              /\ proc' = "returned"
              /\ UNCHANGED <<execClient, workflowClient, pc, op, rpcLog, calls,
                             pollInterval>>
       ELSE \E o \in NewClientOutcomes :
              /\ execClient' = NewClient(o).execClient
              /\ workflowClient' = NewClient(o).workflowClient
              /\ IF NewClient(o).err /= NoErr
                   THEN /\ cmdErr' = CmdErr("Wrapped", "creating client", NewClient(o).err)
                        /\ proc' = "returned"
                        /\ UNCHANGED <<pc, op, rpcLog, calls, pollInterval>>
                 ELSE IF wait
                   THEN /\ cmdErr' = cmdErr
                        /\ proc' = "running"
                        /\ op' = "WaitForCompletion"
                        /\ pc' = "poll"
                        /\ pollInterval' = InitialPollInterval
                        /\ rpcLog' = <<>>
                        /\ calls' = calls + 1
                 ELSE /\ cmdErr' = cmdErr
                      /\ proc' = "running"
                      /\ op' = "GetExecution"
                      /\ pc' = "get_rpc"
                      /\ rpcLog' = <<"GetExecution">>
                      /\ calls' = calls + 1
                      /\ pollInterval' = pollInterval
    /\ UNCHANGED <<remote, ctx, firedAt, ret, obs, lastExec, sleeps, prevErr, listVars,
                   clsVars>>
    /\ UNCHANGED <<pending, data, wait, httpLog, httpResp, callbacks, got>>
    /\ UNCHANGED <<cmd, project, region, outputFormat, async, shown, resourceType,
                   payload, flags, env, cfg>>

\* wf status: GetExecution failed, the command returns its error
StatusGetFailed ==
    /\ cmd = "status" /\ pc = "done" /\ op = "GetExecution"
    /\ ret.err /= NoErr
    /\ cmdErr' = CmdErr("Wrapped", "getting execution status", ret.err)
    /\ DeferredClose
    /\ proc' = "returned"
    /\ pc' = "exit"
    /\ UNCHANGED <<remote, ctx, firedAt, op, pollInterval, ret, obs, lastExec, sleeps,
                   rpcLog, calls, prevErr, listVars, clsVars>>
    /\ UNCHANGED <<pending, data, wait, httpLog, httpResp, callbacks, got>>
    /\ UNCHANGED <<cmd, project, region, outputFormat, async, shown, resourceType,
                   payload, flags, env, cfg>>

\* wf status: the execution read is not ACTIVE, the record is printed as it is
StatusPrint ==
    /\ cmd = "status" /\ pc = "done" /\ op = "GetExecution"
    /\ ret.err = NoErr
    /\ ret.rec[1].State /= "ACTIVE"
    /\ got' = ret.rec[1]
    /\ shown' = <<printStatus(ret.rec[1], <<>>, outputFormat)>>
    /\ cmdErr' = NoCmdErr
    /\ DeferredClose
    /\ proc' = "returned"
    /\ pc' = "exit"
    /\ UNCHANGED <<remote, ctx, firedAt, op, pollInterval, ret, obs, lastExec, sleeps,
                   rpcLog, calls, prevErr, listVars, clsVars>>
    /\ UNCHANGED <<pending, data, wait, httpLog, httpResp, callbacks>>
    /\ UNCHANGED <<cmd, project, region, outputFormat, async, resourceType, payload,
                   flags, env, cfg>>

\* wf status: ListCallbacks returned; its list is put into the record when it
\* did not fail, and the record is printed
StatusListReturn ==
    /\ cmd = "status" /\ pc = "done" /\ op = "ListCallbacks"
    /\ shown' = <<printStatus(got, IF ret.err = NoErr THEN callbacks ELSE <<>>,
                              outputFormat)>>
    /\ cmdErr' = NoCmdErr
    /\ DeferredClose
    /\ proc' = "returned"
    /\ pc' = "exit"
    /\ UNCHANGED <<remote, ctx, firedAt, op, pollInterval, ret, obs, lastExec, sleeps,
                   rpcLog, calls, prevErr, listVars, clsVars>>
    /\ UNCHANGED <<pending, data, wait, httpLog, httpResp, callbacks, got>>
    /\ UNCHANGED <<cmd, project, region, outputFormat, async, resourceType, payload,
                   flags, env, cfg>>

\* wf status --wait: WaitForCompletion returned; the error is returned or the
\* record is printed
StatusWaitReturn ==
    /\ cmd = "status" /\ pc = "done" /\ op = "WaitForCompletion"
    /\ IF ret.err /= NoErr
         THEN /\ cmdErr' = CmdErr("Wrapped", "waiting for execution", ret.err)
              /\ UNCHANGED <<shown, got>>
         ELSE /\ cmdErr' = NoCmdErr
              /\ got' = ret.rec[1]
              /\ shown' = <<printStatus(ret.rec[1], <<>>, outputFormat)>>
    /\ DeferredClose
    /\ proc' = "returned"
    /\ pc' = "exit"
    /\ UNCHANGED <<remote, ctx, firedAt, op, pollInterval, ret, obs, lastExec, sleeps,
                   rpcLog, calls, prevErr, listVars, clsVars>>
    /\ UNCHANGED <<pending, data, wait, httpLog, httpResp, callbacks>>
    /\ UNCHANGED <<cmd, project, region, outputFormat, async, resourceType, payload,
                   flags, env, cfg>>

NextStatus ==
    \/ StatusCmd
    \/ RemoteProceed
    \/ CtxDone
    \/ GetExecutionReturn
    \/ StatusGetFailed
    \/ StatusPrint
    \/ ListCallbacks
    \/ ListCallbacksReturn
    \/ StatusListReturn
    \/ WaitPoll
    \/ WaitAnswer
    \/ WaitCtxDone
    \/ WaitTimer
    \/ StatusWaitReturn

SpecStatus == InitStatus /\ [][NextStatus]_vars

\* the execution is shown as waiting on a callback
ShownWaiting ==
    /\ shown /= <<>>
    /\ \/ shown[1].state = "ACTIVE (waiting on callback)"
       \/ shown[1].callbacks /= <<>>

\* C29: wf status without --wait performs one GetExecution and queries
\* ListCallbacks only when that read reported ACTIVE; a failure of ListCallbacks
\* never fails the command, the record is then reported without callbacks; the
\* execution is shown as waiting on a callback only when the callback list
\* returned is not empty.
C29_StatusCallbacksBestEffort ==
    (cmd = "status" /\ ~wait) =>
      /\ GetExecutionsSent <= 1
      /\ (Ended /\ execClient = "closed" /\ workflowClient = "closed") =>
           rpcLog = <<"GetExecution">>
      /\ (op = "ListCallbacks" \/ httpLog /= <<>>) =>
           /\ obs = <<"ACTIVE">>
           /\ got.State = "ACTIVE"
           /\ Len(httpLog) <= 1
      /\ (Ended /\ obs = <<"ACTIVE">>) => op = "ListCallbacks"
      /\ (Ended /\ op = "ListCallbacks") =>
           /\ cmdErr = NoCmdErr
           /\ shown /= <<>>
           /\ ret.err /= NoErr => ~ShownWaiting
      /\ ShownWaiting =>
           /\ op = "ListCallbacks"
           /\ ret.err = NoErr
           /\ callbacks /= <<>>
           /\ shown[1].callbacks = callbacks

\* a status of an ACTIVE execution whose callbacks listing was refused: the
\* command returned nil and printed the record without callbacks
C29_Witness ==
    /\ cmd = "status" /\ ~wait
    /\ proc = "returned"
    /\ op = "ListCallbacks"
    /\ httpResp.status = 403
    /\ ret.err /= NoErr
    /\ cmdErr = NoCmdErr
    /\ shown /= <<>>
    /\ shown[1].state = "ACTIVE"
    /\ shown[1].callbacks = <<>>
    /\ pending /= <<>>

(***************************************************************************)
(* The commands built on Client.Run: ops get, ops describe, ops logs.      *)
(***************************************************************************)
\* variant: the short alias of pods leads to the singular
resourceTypeExpandChained ==
    [k \in {"hc", "np", "hcp", "deploy", "sts", "rs", "ds", "svc", "cm", "ep", "ns",
            "pvc", "pv", "sa", "po", "ev", "no", "pod", "deployment", "statefulset",
            "replicaset", "daemonset", "service", "configmap", "endpoint",
            "namespace", "node", "event", "serviceaccount", "hostedcluster",
            "nodepool", "hostedcontrolplane", "persistentvolumeclaim",
            "persistentvolume"} |->
       CASE k \in {"hc", "hostedcluster"} -> "hostedclusters"
         [] k \in {"np", "nodepool"} -> "nodepools"
         [] k \in {"hcp", "hostedcontrolplane"} -> "hostedcontrolplanes"
         [] k \in {"deploy", "deployment"} -> "deployments"
         [] k \in {"sts", "statefulset"} -> "statefulsets"
         [] k \in {"rs", "replicaset"} -> "replicasets"
         [] k \in {"ds", "daemonset"} -> "daemonsets"
         [] k \in {"svc", "service"} -> "services"
         [] k \in {"cm", "configmap"} -> "configmaps"
         [] k \in {"ep", "endpoint"} -> "endpoints"
         [] k \in {"ns", "namespace"} -> "namespaces"
         [] k \in {"pvc", "persistentvolumeclaim"} -> "persistentvolumeclaims"
         [] k \in {"pv", "persistentvolume"} -> "persistentvolumes"
         [] k \in {"sa", "serviceaccount"} -> "serviceaccounts"
         [] k = "po" -> "pod"
         [] k = "pod" -> "pods"
         [] k \in {"ev", "event"} -> "events"
         [] k \in {"no", "node"} -> "nodes"]

\* var resourceTypeExpand = map[string]string{...}
resourceTypeExpand ==
    [k \in {"hc", "np", "hcp", "deploy", "sts", "rs", "ds", "svc", "cm", "ep", "ns",
            "pvc", "pv", "sa", "po", "ev", "no", "pod", "deployment", "statefulset",
            "replicaset", "daemonset", "service", "configmap", "endpoint",
            "namespace", "node", "event", "serviceaccount", "hostedcluster",
            "nodepool", "hostedcontrolplane", "persistentvolumeclaim",
            "persistentvolume"} |->
       CASE k \in {"hc", "hostedcluster"} -> "hostedclusters"
         [] k \in {"np", "nodepool"} -> "nodepools"
         [] k \in {"hcp", "hostedcontrolplane"} -> "hostedcontrolplanes"
         [] k \in {"deploy", "deployment"} -> "deployments"
         [] k \in {"sts", "statefulset"} -> "statefulsets"
         [] k \in {"rs", "replicaset"} -> "replicasets"
         [] k \in {"ds", "daemonset"} -> "daemonsets"
         [] k \in {"svc", "service"} -> "services"
         [] k \in {"cm", "configmap"} -> "configmaps"
         [] k \in {"ep", "endpoint"} -> "endpoints"
         [] k \in {"ns", "namespace"} -> "namespaces"
         [] k \in {"pvc", "persistentvolumeclaim"} -> "persistentvolumeclaims"
         [] k \in {"pv", "persistentvolume"} -> "persistentvolumes"
         [] k \in {"sa", "serviceaccount"} -> "serviceaccounts"
         [] k \in {"po", "pod"} -> "pods"
         [] k \in {"ev", "event"} -> "events"
         [] k \in {"no", "node"} -> "nodes"]

\* if expanded, ok := resourceTypeExpand[resourceType]; ok { resourceType = expanded }
Expand(rt) ==
    IF rt \in DOMAIN resourceTypeExpand THEN resourceTypeExpand[rt] ELSE rt

\* resource type arguments: every key of the table, every name the table leads
\* to, and names the table does not know (the lookup is case-sensitive)
UnknownNames == {"widgets", "secrets", "PO", "Pods", "hostedcluste", ""}
ResourceArgs ==
    DOMAIN resourceTypeExpand
    \cup {resourceTypeExpand[k] : k \in DOMAIN resourceTypeExpand}
    \cup UnknownNames

\* the resource type arguments of the runs that go on to the workflow
SampleResourceArgs == {"po"}

Namespaces == {"", "default"}

\* the argument map of the command (of the optional entries only the namespace)
OpsData(c, rt, ns) ==
    IF c = "logs" THEN [namespace |-> ns, pod |-> "pod1", tail_lines |-> 100]
    ELSE IF c = "describe"
      THEN IF ns /= "" THEN [resource_type |-> rt, name |-> "r1", namespace |-> ns]
           ELSE [resource_type |-> rt, name |-> "r1"]
    ELSE IF ns /= "" THEN [resource_type |-> rt, namespace |-> ns]
         ELSE [resource_type |-> rt]

\* the checks the command makes before it creates its client
OpsMissing(c, p, r, ns) ==
    IF MissingFlag(p, r) /= "" THEN MissingFlag(p, r)
    ELSE IF c = "logs" /\ ns = "" THEN "--namespace is required for logs"
    ELSE ""

\* result.Result["status"].(string) == "container_required"
ContainerRequired(m) ==
    /\ m.t = "obj"
    /\ "\"status\"" \in DOMAIN m.m
    /\ m.m["\"status\""] = JStr("\"container_required\"")

\* variant: a cancelled execution is an error as well
OpsErrorCancelledFails(c, format, r) ==
    IF r.err /= NoErr THEN CmdErr("Wrapped", "executing workflow", r.err)
    ELSE IF r.rec[1].State \in {"FAILED", "CANCELLED"}
      THEN CmdErr("WorkflowFailed", "workflow failed", NoErr)
    ELSE IF /\ c = "logs"
            /\ ParseFormat(format) /= "json"
            /\ ContainerRequired(r.rec[1].Result)
      THEN CmdErr("ContainerRequired", "container name required", NoErr)
    ELSE NoCmdErr

\* the error the command returns after client.Run returned r
OpsError(c, format, r) ==
    IF r.err /= NoErr THEN CmdErr("Wrapped", "executing workflow", r.err)
    ELSE IF r.rec[1].State = "FAILED"
      THEN CmdErr("WorkflowFailed", "workflow failed", NoErr)
    ELSE IF /\ c = "logs"
            /\ ParseFormat(format) /= "json"
            /\ ContainerRequired(r.rec[1].Result)
      THEN CmdErr("ContainerRequired", "container name required", NoErr)
    ELSE NoCmdErr

OpsCommands == {"get", "describe", "logs"}

\* the results of the workflows of these commands
OpsTexts ==
    {ItemsText,
     <<"{", "\"status\"", ":", "\"container_required\"", "}">>,
     <<"{", "\"logs\"", ":", "\"a\"", "}">>}

InitOpsWith(rts) ==
    /\ remote = AbsentExec
    /\ ctx = "live"
    /\ firedAt = "none"
    /\ pc = "idle"
    /\ op = "none"
    /\ pollInterval = InitialPollInterval
    /\ ret = NoRet
    /\ obs = <<>>
    /\ lastExec = AbsentExec
    /\ sleeps = <<>>
    /\ rpcLog = <<>>
    /\ calls = 0
    /\ prevErr = "none"
    /\ ListIdle
    /\ CmdIdle
    /\ ClsIdle
    /\ cmd \in OpsCommands
    /\ resourceType \in IF cmd = "logs" THEN {""} ELSE rts
    /\ project \in ProjectValues
    /\ region \in RegionValues
    /\ outputFormat \in OutputFormats
    /\ flags \in {[NoFlags EXCEPT !.namespace = ns] : ns \in Namespaces}
    /\ async = FALSE /\ execClient = "nil" /\ workflowClient = "nil"
    /\ proc = "idle" /\ shown = <<>> /\ payload = NilMap
    /\ env = NoEnv /\ cfg = NoConfig

InitOps == InitOpsWith(SampleResourceArgs)

\* RunE up to the CreateExecution request: the alias is expanded, the flags are
\* checked, the argument map is built, the client is created, and Client.Run,
\* through Execute, sends the request
OpsCmd ==
    /\ cmd \in OpsCommands /\ proc = "idle"
    /\ IF OpsMissing(cmd, project, region, flags.namespace) /= ""
         THEN /\ cmdErr' = CmdErr("InvalidInput",
                                  OpsMissing(cmd, project, region, flags.namespace),
                                  NoErr)
              /\ proc' = "returned"
              /\ UNCHANGED <<execClient, workflowClient, payload, pc, op, rpcLog, calls>>
       ELSE \E o \in NewClientOutcomes :
              /\ payload' = OpsData(cmd, Expand(resourceType), flags.namespace)
              /\ execClient' = NewClient(o).execClient
              /\ workflowClient' = NewClient(o).workflowClient
              /\ IF NewClient(o).err /= NoErr
                   THEN /\ cmdErr' = CmdErr("Wrapped", "creating client", NewClient(o).err)
                        /\ proc' = "returned"
                        /\ UNCHANGED <<pc, op, rpcLog, calls>>
                   ELSE /\ cmdErr' = cmdErr
                        /\ proc' = "running"
                        /\ op' = "Run"
                        /\ pc' = "create_rpc"
                        /\ rpcLog' = <<"CreateExecution">>
                        /\ calls' = calls + 1
    /\ UNCHANGED <<remote, ctx, firedAt, pollInterval, ret, obs, lastExec, sleeps,
                   prevErr, listVars, clsVars>>
    /\ UNCHANGED <<pending, data, wait, httpLog, httpResp, callbacks, got>>
    /\ UNCHANGED <<cmd, project, region, outputFormat, async, shown, resourceType,
                   flags, env, cfg>>

\* the service moves the execution of the command on: QUEUED -> ACTIVE -> a
\* terminal state, with one of the results of these workflows
OpsRemoteAdvance ==
    /\ remote.State \in {"QUEUED", "ACTIVE"}
    /\ \E n \in IF remote.State = "QUEUED" THEN {"ACTIVE"} ELSE TerminalStates :
         remote' \in ExecutionsIn(remote.Name, n, {remote.StartTime}, OpsTexts)
    /\ UNCHANGED <<ctx, firedAt, pc, op, pollInterval, ret, obs, lastExec, sleeps,
                   rpcLog, calls>>
    /\ UNCHANGED <<prevErr, execs, limit, failAt, it, result, lpc, lret, extVars>>

\* client.Run returned: the command returns an error or prints the result
OpsRunReturn ==
    /\ cmd \in OpsCommands /\ pc = "done" /\ op = "Run"
    /\ cmdErr' = OpsError(cmd, outputFormat, ret)
    /\ shown' = IF cmdErr' = NoCmdErr THEN <<ret.rec[1].Result>> ELSE shown
    /\ DeferredClose
    /\ proc' = "returned"
    /\ pc' = "exit"
    /\ UNCHANGED <<remote, ctx, firedAt, op, pollInterval, ret, obs, lastExec, sleeps,
                   rpcLog, calls, prevErr, listVars, clsVars>>
    /\ UNCHANGED <<pending, data, wait, httpLog, httpResp, callbacks, got>>
    /\ UNCHANGED <<cmd, project, region, outputFormat, async, resourceType, payload,
                   flags, env, cfg>>

NextOps ==
    \/ OpsCmd
    \/ RunExecuteReturn
    \/ OpsRemoteAdvance
    \/ CtxDone
    \/ WaitPoll
    \/ WaitAnswer
    \/ WaitCtxDone
    \/ WaitTimer
    \/ OpsRunReturn

SpecOps == InitOps /\ [][NextOps]_vars

\* Client.Run inside a command: CreateExecution first, GetExecution requests only
\* after it and only when it succeeded, and the handle is returned whenever the
\* execution was created
RunOrder ==
    op = "Run" =>
      /\ rpcLog /= <<>>
      /\ rpcLog[1] = "CreateExecution"
      /\ \A i \in 2..Len(rpcLog) : rpcLog[i] = "GetExecution"
      /\ ~Created => Len(rpcLog) = 1 /\ obs = <<>> /\ sleeps = <<>>
      /\ (pc \in {"done", "exit"} /\ Created) => ret.name = remote.Name
      /\ (pc \in {"done", "exit"} /\ ~Created) =>
           ret.name = <<>> /\ ret.rec = <<>> /\ ret.err /= NoErr

\* Run returned without error the record of a state other than FAILED
RunSucceeded == ret.err = NoErr /\ ret.rec[1].State /= "FAILED"

\* C30: Run performs CreateExecution and then WaitForCompletion, never polls when
\* CreateExecution failed, and returns the handle also when the wait fails; ops
\* get, ops describe and ops logs return an error exactly when Run returned an
\* error or the terminal state is FAILED, so a CANCELLED execution is rendered
\* as a normal result without error.
C30_ErrorIffRunFailed ==
    /\ RunOrder
    /\ (cmd \in OpsCommands /\ Ended /\ op = "Run") =>
         /\ cmdErr /= NoCmdErr <=> ~RunSucceeded
         /\ (ret.err = NoErr /\ ret.rec[1].State = "CANCELLED") =>
              cmdErr = NoCmdErr /\ shown = <<ret.rec[1].Result>>

\* C30, amended: as claimed for Run, ops get and ops describe; ops logs returns
\* an error also when, in an output format other than JSON, the result of the
\* workflow has the status container_required.
C30_ErrorIffRunFailedOrContainerRequired ==
    /\ RunOrder
    /\ (cmd \in OpsCommands /\ Ended /\ op = "Run") =>
         /\ cmdErr /= NoCmdErr <=>
              \/ ~RunSucceeded
              \/ /\ cmd = "logs"
                 /\ outputFormat /= "json"
                 /\ ContainerRequired(ret.rec[1].Result)
         /\ (ret.err = NoErr /\ ret.rec[1].State = "CANCELLED") =>
              cmdErr = NoCmdErr /\ shown = <<ret.rec[1].Result>>
         /\ cmd \in {"get", "describe"} => (cmdErr /= NoCmdErr <=> ~RunSucceeded)

\* ops logs whose workflow succeeded with the status container_required returned
\* an error
C30_Witness ==
    /\ cmd = "logs"
    /\ proc = "returned"
    /\ op = "Run"
    /\ ret.err = NoErr
    /\ ret.rec[1].State = "SUCCEEDED"
    /\ ContainerRequired(ret.rec[1].Result)
    /\ cmdErr = CmdErr("ContainerRequired", "container name required", NoErr)
    /\ ret.name = ExecName

(***************************************************************************)
(* The alias expansion of ops get and ops describe, for every argument.    *)
(***************************************************************************)
InitExpand == InitOpsWith(ResourceArgs) /\ cmd \in {"get", "describe"}

NextExpand == OpsCmd

SpecExpand == InitExpand /\ [][NextExpand]_vars

\* the pairs of TestResourceTypeExpand
TestResourceTypeExpand ==
    {<<"hc", "hostedclusters">>, <<"np", "nodepools">>,
     <<"hcp", "hostedcontrolplanes">>, <<"deploy", "deployments">>,
     <<"svc", "services">>, <<"cm", "configmaps">>, <<"ns", "namespaces">>,
     <<"po", "pods">>, <<"ev", "events">>, <<"no", "nodes">>,
     <<"sa", "serviceaccounts">>, <<"pvc", "persistentvolumeclaims">>,
     <<"pv", "persistentvolumes">>, <<"sts", "statefulsets">>,
     <<"rs", "replicasets">>, <<"ds", "daemonsets">>, <<"ep", "endpoints">>,
     <<"pod", "pods">>, <<"deployment", "deployments">>, <<"service", "services">>,
     <<"configmap", "configmaps">>, <<"namespace", "namespaces">>,
     <<"node", "nodes">>, <<"event", "events">>,
     <<"hostedcluster", "hostedclusters">>, <<"nodepool", "nodepools">>,
     <<"hostedcontrolplane", "hostedcontrolplanes">>}

\* the canonical plural names
CanonicalNames ==
    {"hostedclusters", "nodepools", "hostedcontrolplanes", "deployments",
     "statefulsets", "replicasets", "daemonsets", "services", "configmaps",
     "endpoints", "namespaces", "persistentvolumeclaims", "persistentvolumes",
     "serviceaccounts", "pods", "events", "nodes"}

\* C24: the resource_type ops get and ops describe put into the argument map is
\* always canonical: an alias or singular form of the table is replaced by its
\* canonical plural before the map is built, a name the table does not have
\* passes through unchanged, and expanding again changes nothing (no canonical
\* name is a key of the table).
C24_PayloadIsCanonical ==
    /\ \A k \in DOMAIN resourceTypeExpand :
         /\ resourceTypeExpand[k] \in CanonicalNames
         /\ resourceTypeExpand[k] \notin DOMAIN resourceTypeExpand
    /\ \A t \in TestResourceTypeExpand : Expand(t[1]) = t[2]
    /\ (cmd \in {"get", "describe"} /\ payload /= NilMap) =>
         /\ payload.resource_type \notin DOMAIN resourceTypeExpand
         /\ Expand(payload.resource_type) = payload.resource_type
         /\ resourceType \in DOMAIN resourceTypeExpand =>
              /\ payload.resource_type \in CanonicalNames
              /\ payload.resource_type = resourceTypeExpand[resourceType]
         /\ resourceType \notin DOMAIN resourceTypeExpand =>
              payload.resource_type = resourceType

\* ops get po has built its argument map with resource_type pods
C24_Witness ==
    /\ cmd = "get"
    /\ resourceType = "po"
    /\ payload /= NilMap
    /\ payload.resource_type = "pods"
    /\ pc = "create_rpc"

(***************************************************************************)
(* Configuration: flags, environment, config file.                         *)
(***************************************************************************)
\* a config file that cannot be read or parsed
Unreadable == [unreadable |-> TRUE]

\* what the config file holds: nothing (no file: the empty Config), its keys,
\* or something config.Load fails on
Configs ==
    {[Project |-> p, Region |-> r, Output |-> o] :
       p \in {"", "cp"}, r \in {"", "cr"}, o \in {"", "json", "yaml"}}

\* config.Load
Load(file) ==
    IF file = Unreadable THEN [err |-> TRUE, cfg |-> NoConfig]
    ELSE [err |-> FALSE, cfg |-> file]

\* what can stand on the command line: a flag is absent (<<>>) or given with a
\* value, which may be empty
CommandLines ==
    {[project |-> p, region |-> r, output |-> o, namespace |-> ""] :
       p \in {<<>>, <<"">>, <<"fp">>},
       r \in {<<>>, <<"">>, <<"fr">>},
       o \in {<<>>, <<"text">>, <<"json">>}}

Environments ==
    {[GCPHCP_PROJECT |-> p, GCPHCP_REGION |-> r] : p \in {"", "ep"}, r \in {"", "er"}}

\* StringVar(&v, name, default, ...) and the parse of the command line: the
\* variable holds the default unless the flag is given
FlagValue(given, default) == IF given /= <<>> THEN given[1] ELSE default

\* cmd.Flags().Changed(name)
Changed(given) == given /= <<>>

InitConfig ==
    /\ remote = AbsentExec
    /\ ctx = "live"
    /\ firedAt = "none"
    /\ pc = "init"
    /\ op = "none"
    /\ pollInterval = InitialPollInterval
    /\ ret = NoRet
    /\ obs = <<>>
    /\ lastExec = AbsentExec
    /\ sleeps = <<>>
    /\ rpcLog = <<>>
    /\ calls = 0
    /\ prevErr = "none"
    /\ ListIdle
    /\ CmdIdle
    /\ ClsIdle
    /\ cmd = "none"
    /\ project = "" /\ region = "" /\ outputFormat = ""
    /\ async = FALSE /\ execClient = "nil" /\ workflowClient = "nil"
    /\ proc = "idle" /\ shown = <<>> /\ resourceType = "" /\ payload = NilMap
    /\ flags \in CommandLines
    /\ env \in Environments
    /\ cfg \in Configs \cup {Unreadable}

\* init() registers the flags with their defaults, and the command line is parsed
ParseFlags ==
    /\ pc = "init"
    /\ project' = FlagValue(flags.project, env.GCPHCP_PROJECT)
    /\ region' = FlagValue(flags.region, env.GCPHCP_REGION)
    /\ outputFormat' = FlagValue(flags.output, "text")
    /\ pc' = "parsed"
    /\ proc' = "running"
    /\ UNCHANGED <<remote, ctx, firedAt, op, pollInterval, ret, obs, lastExec, sleeps,
                   rpcLog, calls, prevErr, listVars, cmdVars, clsVars>>
    /\ UNCHANGED <<cmd, async, execClient, workflowClient, shown, resourceType,
                   payload, flags, env, cfg>>

\* PersistentPreRunE: loadConfig
loadConfig ==
    /\ pc = "parsed"
    /\ IF Load(cfg).err
         THEN /\ cmdErr' = CmdErr("Config", "reading or parsing config", NoErr)
              /\ proc' = "returned"
              /\ pc' = "exit"
              /\ UNCHANGED <<project, region, outputFormat>>
         ELSE LET c == Load(cfg).cfg IN
              /\ project' = IF project = "" /\ c.Project /= "" THEN c.Project
                            ELSE project
              /\ region' = IF region = "" /\ c.Region /= "" THEN c.Region ELSE region
              /\ outputFormat' = IF ~Changed(flags.output) /\ c.Output /= ""
                                   THEN c.Output ELSE outputFormat
              /\ pc' = "loaded"
              /\ UNCHANGED <<cmdErr, proc>>
    /\ UNCHANGED <<remote, ctx, firedAt, op, pollInterval, ret, obs, lastExec, sleeps,
                   rpcLog, calls, prevErr, listVars, clsVars>>
    /\ UNCHANGED <<pending, data, wait, httpLog, httpResp, callbacks, got>>
    /\ UNCHANGED <<cmd, async, execClient, workflowClient, shown, resourceType,
                   payload, flags, env, cfg>>

NextConfig ==
    \/ ParseFlags
    \/ loadConfig

SpecConfig == InitConfig /\ [][NextConfig]_vars

\* flag, else environment, else config file
ByPriority(given, envValue, cfgValue) ==
    IF given /= <<>> THEN given[1]
    ELSE IF envValue /= "" THEN envValue
    ELSE cfgValue

\* C23: configuration priority is flag > environment > config file: the
\* effective project and region are the flag value when the flag is given,
\* otherwise the value of GCPHCP_PROJECT / GCPHCP_REGION when set, otherwise the
\* value of the config file; the output format of the config file is used only
\* when --output is not given on the command line.
C23_FlagEnvConfigPriority ==
    pc = "loaded" =>
      /\ project = ByPriority(flags.project, env.GCPHCP_PROJECT, cfg.Project)
      /\ region = ByPriority(flags.region, env.GCPHCP_REGION, cfg.Region)
      /\ flags.output /= <<>> => outputFormat = flags.output[1]
      /\ flags.output = <<>> =>
           outputFormat = IF cfg.Output /= "" THEN cfg.Output ELSE "text"

====
